---- MODULE Spec2Model ----
(***************************************************************************)
(* Verification model of the paystub analyzer: the continuity engine       *)
(* (state YTD repair, deduplication), the W-2 comparator, the correction   *)
(* merger, the filing-safety gate and the household aggregator.            *)
(*                                                                         *)
(* Money is Decimal with two fraction digits in the code; the model keeps  *)
(* it exact as an integer number of cents.  Python's None is the           *)
(* out-of-range value None for numeric fields and dates, and the string    *)
(* NoLine for evidence strings.  File names are integers whose order is    *)
(* the lexicographic order of the names; pay dates are day numbers.        *)
(***************************************************************************)
EXTENDS Integers, Sequences, FiniteSets, TLC

VARIABLES
    pc,                  \* position of the call under analysis
    tolerance,           \* the tolerance argument (cents)
    \* validate_filing_safety
    extracted_data, comparisons, consistency_issues, filing_safety,
    \* compare_snapshot_to_w2 (its rows are returned in comparisons)
    snapshot, w2_data,
    \* merge_corrections (its input tree is extracted_data)
    corrections, effective, correction_trace,
    \* the continuity engine: the snapshot list of one filer, the result of
    \* state YTD repair, of a second repair run on that result, and of
    \* deduplication under the manual pay date overrides
    snapshots, verified, reverified, canonical, pay_date_overrides,
    \* the result of zero-period YTD promotion on the snapshot list
    promoted,
    \* build_household_package: its arguments, the loop position, the paths
    \* claimed so far, what the loaders returned for the current filer, the
    \* analyses and running totals, and how the call ended
    household_config, household_corrections, household_overrides,
    filer_index, seen_paths, loaded, results, total_gross, total_fed, all_ready, outcome,
    \* the Python objects of one stage call, by address, and the address of
    \* the object the stage returned
    heap, ret,
    \* the line tokenizer: a normalized line, the amounts and anomalies
    \* extract_money_values_with_anomalies returns for it and the AmountPair
    \* parse_amount_pair_from_line returns for it
    money_line, money_values, anomalies, amount_pair

gateVars == <<extracted_data, comparisons, consistency_issues, filing_safety>>
w2Vars == <<snapshot, w2_data>>
corrVars == <<corrections, effective, correction_trace>>
seqVars == <<snapshots, verified, reverified, canonical, pay_date_overrides, promoted>>
houseArgs == <<household_config, household_corrections, household_overrides>>
houseVars == <<houseArgs, filer_index, seen_paths, loaded, results, total_gross, total_fed,
               all_ready, outcome>>
heapVars == <<heap, ret>>
lineVars == <<money_line, money_values, anomalies, amount_pair>>
vars == <<pc, tolerance, gateVars, w2Vars, corrVars, seqVars, houseVars, heapVars, lineVars>>

----------------------------------------------------------------------------
(* Values *)

None == -999999999
NoLine == "None"

\* d.get(k): the value under k, or None when the key is absent
Get(d, k) == IF k \in DOMAIN d THEN d[k] ELSE None

\* d[k] = v on a dict, adding the key when it is new
Put(d, k, v) == [x \in DOMAIN d \cup {k} |-> IF x = k THEN v ELSE d[x]]

Abs(x) == IF x < 0 THEN -x ELSE x
Max2(a, b) == IF a >= b THEN a ELSE b

\* the concatenation of a sequence of sequences
RECURSIVE Flatten(_)
Flatten(ss) == IF Len(ss) = 0 THEN <<>> ELSE Head(ss) \o Flatten(Tail(ss))

RECURSIVE SeqsUpTo(_, _)
\* all sequences over S of length at most n
SeqsUpTo(S, n) ==
    IF n = 0 THEN {<<>>}
    ELSE LET shorter == SeqsUpTo(S, n - 1)
         IN  shorter \cup {Append(q, x) : q \in {r \in shorter : Len(r) = n - 1}, x \in S}

----------------------------------------------------------------------------
(* core.py: AmountPair, PaystubSnapshot *)

AmountPair(this_period, ytd, source_line) ==
    [this_period |-> this_period, ytd |-> ytd, source_line |-> source_line,
     is_ytd_confirmed |-> FALSE]

EmptyPair == AmountPair(None, None, NoLine)

PaystubSnapshot(file, pay_date, gross, fed, ss, med, k401, states) ==
    [file |-> file, pay_date |-> pay_date, gross_pay |-> gross,
     federal_income_tax |-> fed, social_security_tax |-> ss, medicare_tax |-> med,
     k401_contrib |-> k401, state_income_tax |-> states,
     \* parse_anomalies: list = field(default_factory=list)
     parse_anomalies |-> <<>>]

\* state codes in alphabetical order, and str.upper() on the codes used
StateCodes == <<"AZ", "VA">>
Upper(s) == CASE s = "az" -> "AZ" [] s = "va" -> "VA" [] OTHER -> s

\* sorted(S) for a set of state codes
SortedStates(S) == SelectSeq(StateCodes, LAMBDA c : c \in S)

\* as_float: quantize to cents, then to float; exact for cent amounts
as_float(value) == IF value = None THEN None ELSE value

RECURSIVE SumOver(_, _)
SumOver(f, S) ==
    IF S = {} THEN 0
    ELSE LET k == CHOOSE k \in S : TRUE IN f[k] + SumOver(f, S \ {k})

sum_state_ytd(state_pairs) ==
    SumOver([st \in DOMAIN state_pairs |->
                IF state_pairs[st].ytd # None THEN state_pairs[st].ytd ELSE 0],
            DOMAIN state_pairs)

----------------------------------------------------------------------------
(* core.py: the money tokenizer and parse_amount_pair_from_line *)

\* A normalized line is the sequence of its MONEY_RE matches, in line order,
\* and the set of keywords its text contains.  A match is its sign character
\* ("" for none) and the digits after it, read as a number of cents.
MAX_PLAUSIBLE_AMOUNT == 1000000000

MoneyToken(sign, digits) == [sign |-> sign, digits |-> digits]

\* parse_money: everything but digits, "." and "-" is dropped, so a "+" is
\* lost and a "-" makes the Decimal negative
parse_money(token) == IF token.sign = "-" THEN 0 - token.digits ELSE token.digits

\* as IsImplausible, but the limit itself is filtered too
IsImplausible_inclusive(abs_value) == abs_value >= MAX_PLAUSIBLE_AMOUNT

\* abs_value > MAX_PLAUSIBLE_AMOUNT
IsImplausible(abs_value) == abs_value > MAX_PLAUSIBLE_AMOUNT

Anomaly(token, abs_value, evidence) ==
    [code |-> "implausible_amount_filtered", severity |-> "warning", token |-> token,
     parsed |-> abs_value, evidence |-> evidence]

RECURSIVE ExtractFrom(_, _, _)
\* the loop over the tokens from position k on
ExtractFrom(acc, ln, k) ==
    IF k > Len(ln.tokens) THEN acc
    ELSE LET parsed == parse_money(ln.tokens[k])
             abs_value == Abs(parsed)
         IN  IF IsImplausible(abs_value)
             THEN ExtractFrom([acc EXCEPT !.anomalies =
                                    Append(@, Anomaly(ln.tokens[k], abs_value, ln))], ln, k + 1)
             ELSE ExtractFrom([acc EXCEPT !.values = Append(@, parsed)], ln, k + 1)

extract_money_values_with_anomalies(ln) ==
    ExtractFrom([values |-> <<>>, anomalies |-> <<>>], ln, 1)

extract_money_values(ln) == extract_money_values_with_anomalies(ln).values

\* any(k in normalized.upper() for k in [...])
is_ytd_explicit(ln) == ln.keywords \cap {"YTD", "YEAR TO DATE"} # {}
is_period_explicit(ln) ==
    ln.keywords \cap {"THIS PERIOD", "CURRENT", "REGULAR", "EARNINGS"} # {}

\* as SecondIsYtd, but an equal second amount is not taken as the YTD
SecondIsYtd_strict(first, second) == second > first

\* if second >= first
SecondIsYtd(first, second) == second >= first

parse_amount_pair_from_line(ln) ==
    LET values == extract_money_values(ln)
        amounts == [k \in 1..Len(values) |-> Abs(values[k])]
    IN  IF Len(amounts) = 0 THEN AmountPair(None, None, ln)
        ELSE IF Len(amounts) = 1
        THEN (IF is_ytd_explicit(ln) THEN AmountPair(None, amounts[1], ln)
              ELSE IF is_period_explicit(ln) THEN AmountPair(amounts[1], None, ln)
              ELSE AmountPair(amounts[1], None, ln))
        ELSE IF SecondIsYtd(amounts[1], amounts[2]) THEN AmountPair(amounts[1], amounts[2], ln)
        ELSE IF is_ytd_explicit(ln) THEN AmountPair(None, amounts[1], ln)
        ELSE IF is_period_explicit(ln) THEN AmountPair(amounts[1], None, ln)
        ELSE AmountPair(amounts[1], None, ln)

----------------------------------------------------------------------------
(* w2.py *)

\* as compare_amounts, but the tolerance bound is exclusive and the
\* informational mode is ignored
compare_amounts_strict(field, paystub_value, w2_value, tol, mode) ==
    IF paystub_value = None
    THEN [field |-> field, paystub |-> None, w2 |-> as_float(w2_value),
          difference |-> None, status |-> "missing_paystub_value"]
    ELSE IF w2_value = None
    THEN [field |-> field, paystub |-> as_float(paystub_value), w2 |-> None,
          difference |-> None, status |-> "missing_w2_value"]
    ELSE LET diff == paystub_value - w2_value
         IN  [field |-> field, paystub |-> as_float(paystub_value), w2 |-> as_float(w2_value),
              difference |-> as_float(diff),
              status |-> IF Abs(diff) < tol THEN "match" ELSE "mismatch"]

compare_amounts(field, paystub_value, w2_value, tol, mode) ==
    IF paystub_value = None
    THEN [field |-> field, paystub |-> None, w2 |-> as_float(w2_value),
          difference |-> None, status |-> "missing_paystub_value"]
    ELSE IF w2_value = None
    THEN [field |-> field, paystub |-> as_float(paystub_value), w2 |-> None,
          difference |-> None, status |-> "missing_w2_value"]
    ELSE LET diff == paystub_value - w2_value
         IN  [field |-> field, paystub |-> as_float(paystub_value), w2 |-> as_float(w2_value),
              difference |-> as_float(diff),
              status |-> IF Abs(diff) <= tol THEN "match"
                         ELSE IF mode = "informational" THEN "review_needed"
                         ELSE "mismatch"]

pair_ytd(pair) == pair.ytd

\* state_boxes: upper-cased state -> the last entry naming it; entries with an
\* empty state are skipped
StateBoxKeys(w2) ==
    {Upper(w2.state_boxes[i].state) : i \in {j \in 1..Len(w2.state_boxes) : w2.state_boxes[j].state # ""}}

StateBoxEntry(w2, state) ==
    LET hits == {i \in 1..Len(w2.state_boxes) :
                    w2.state_boxes[i].state # "" /\ Upper(w2.state_boxes[i].state) = state}
    IN  w2.state_boxes[CHOOSE i \in hits : \A j \in hits : j <= i]

\* as AllStates, but only the states of the snapshot
AllStates_snapshot_only(snap, w2) == SortedStates(DOMAIN snap.state_income_tax)

AllStates(snap, w2) == SortedStates(DOMAIN snap.state_income_tax \cup StateBoxKeys(w2))

StateRow(snap, w2, state, tol) ==
    LET w2_state_tax == IF state \in StateBoxKeys(w2)
                        THEN StateBoxEntry(w2, state).box_17_state_income_tax ELSE None
        paystub_value == IF state \in DOMAIN snap.state_income_tax
                         THEN pair_ytd(snap.state_income_tax[state]) ELSE None
    IN  compare_amounts(state \o "_state_income_tax_withheld", paystub_value, w2_state_tax,
                        tol, "strict")

compare_snapshot_to_w2(snap, w2, tol) ==
    LET all_states == AllStates(snap, w2)
    IN  << compare_amounts("federal_income_tax_withheld", pair_ytd(snap.federal_income_tax),
                           w2.box_2_federal_income_tax_withheld, tol, "strict"),
           compare_amounts("social_security_tax_withheld", pair_ytd(snap.social_security_tax),
                           w2.box_4_social_security_tax_withheld, tol, "strict"),
           compare_amounts("medicare_tax_withheld", pair_ytd(snap.medicare_tax),
                           w2.box_6_medicare_tax_withheld, tol, "strict"),
           compare_amounts("gross_pay_vs_box1_informational", pair_ytd(snap.gross_pay),
                           w2.box_1_wages_tips_other_comp, tol, "informational") >>
        \o [i \in 1..Len(all_states) |-> StateRow(snap, w2, all_states[i], tol)]

----------------------------------------------------------------------------
(* annual.py: ordering *)

STATE_YTD_OUTLIER_MIN_ABS == 25000
STATE_YTD_NEIGHBOR_TOLERANCE == 100
STATE_YTD_SPIKE_MULTIPLIER == 4

DateMin == 0

\* file names from DatedFileBase on carry their pay date in the name
DatedFileBase == 10
parse_pay_date_from_filename(file) ==
    IF file > DatedFileBase THEN file - DatedFileBase ELSE None

snapshot_sort_key(snap) ==
    LET named == IF snap.pay_date # None THEN snap.pay_date
                 ELSE parse_pay_date_from_filename(snap.file)
    IN  << IF named = None THEN DateMin ELSE named, snap.file >>

KeyLess(a, b) == a[1] < b[1] \/ (a[1] = b[1] /\ a[2] < b[2])

RECURSIVE InsertSorted(_, _)
\* insert after the last element whose key is not greater (stable)
InsertSorted(sorted, snap) ==
    IF Len(sorted) = 0 THEN <<snap>>
    ELSE IF KeyLess(snapshot_sort_key(snap), snapshot_sort_key(Head(sorted)))
         THEN <<snap>> \o sorted
         ELSE <<Head(sorted)>> \o InsertSorted(Tail(sorted), snap)

RECURSIVE SortSnapshots(_)
\* list.sort(key=snapshot_sort_key)
SortSnapshots(seq) ==
    IF Len(seq) = 0 THEN <<>>
    ELSE InsertSorted(SortSnapshots(SubSeq(seq, 1, Len(seq) - 1)), seq[Len(seq)])

----------------------------------------------------------------------------
(* annual.py: verify_and_repair_state_ytd_anomalies *)

\* Decimal.quantize(0.01) of half a number of cents: ROUND_HALF_EVEN
HalfEven(cents) ==
    LET q == cents \div 2
    IN  IF cents % 2 = 0 THEN q ELSE IF q % 2 = 0 THEN q ELSE q + 1

clone_pair(pair) == AmountPair(pair.this_period, pair.ytd, pair.source_line)

\* copied.append(...): the copy is a list of its own, built element by element
clone_snapshots(snaps) ==
    <<>> \o [i \in 1..Len(snaps) |->
        PaystubSnapshot(snaps[i].file, snaps[i].pay_date, snaps[i].gross_pay,
                        snaps[i].federal_income_tax, snaps[i].social_security_tax,
                        snaps[i].medicare_tax, snaps[i].k401_contrib,
                        [st \in DOMAIN snaps[i].state_income_tax |->
                            clone_pair(snaps[i].state_income_tax[st])])]

\* "-" in source_line
HasMinus(line) == line \in {"evidence -"}

\* the indices (ascending) of the snapshots that carry a YTD for the state
StateIndices(repaired, state) ==
    LET has(i) == /\ state \in DOMAIN repaired[i].state_income_tax
                  /\ repaired[i].state_income_tax[state].ytd # None
        RECURSIVE From(_)
        From(i) == IF i > Len(repaired) THEN <<>>
                   ELSE (IF has(i) THEN <<i>> ELSE <<>>) \o From(i + 1)
    IN  From(1)

\* the YTD of the nearest occurrence before (after) position with another pay date
PrevYtd(repaired, state, indices, position) ==
    LET cands == {cp \in 1..(position - 1) :
                    repaired[indices[cp]].pay_date # repaired[indices[position]].pay_date}
    IN  IF cands = {} THEN None
        ELSE repaired[indices[CHOOSE cp \in cands : \A o \in cands : o <= cp]]
                .state_income_tax[state].ytd

NextYtd(repaired, state, indices, position) ==
    LET cands == {cp \in (position + 1)..Len(indices) :
                    repaired[indices[cp]].pay_date # repaired[indices[position]].pay_date}
    IN  IF cands = {} THEN None
        ELSE repaired[indices[CHOOSE cp \in cands : \A o \in cands : o >= cp]]
                .state_income_tax[state].ytd

SameCyclePeerYtds(repaired, state, indices, position) ==
    {repaired[indices[cp]].state_income_tax[state].ytd :
        cp \in {c \in 1..Len(indices) :
                    /\ c # position
                    /\ repaired[indices[c]].pay_date = repaired[indices[position]].pay_date}}

SetMax(S) == CHOOSE x \in S : \A y \in S : y <= x

NoRepair == [corrected_ytd |-> None, corrected_this |-> None, reason |-> "none"]

\* anchor_ytd: the midpoint of the neighbours, in cents
NeighborAnchor(prev_ytd, next_ytd) == HalfEven(prev_ytd + next_ytd)

\* as RedundantThisPeriod, but the amount must equal the anchor
RedundantThisPeriod_exact(pair, corrected_ytd, tol) ==
    /\ pair.this_period # None
    /\ pair.this_period = corrected_ytd
    /\ (pair.source_line = NoLine \/ ~HasMinus(pair.source_line))

\* the this_period that the neighbour rule drops
RedundantThisPeriod(pair, corrected_ytd, tol) ==
    /\ pair.this_period # None
    /\ Abs(pair.this_period - corrected_ytd) <= Max2(tol, 1)
    /\ (pair.source_line = NoLine \/ ~HasMinus(pair.source_line))

\* as OpeningEntrySpike, but this_period may exceed next by 0.05 at most
OpeningEntrySpike_strict(pair, next_ytd, tol) ==
    /\ pair.ytd > next_ytd + STATE_YTD_OUTLIER_MIN_ABS
    /\ pair.ytd > next_ytd * STATE_YTD_SPIKE_MULTIPLIER
    /\ pair.this_period <= next_ytd + 5

\* the condition of the opening_entry_spike repair
OpeningEntrySpike(pair, next_ytd, tol) ==
    /\ pair.ytd > next_ytd + STATE_YTD_OUTLIER_MIN_ABS
    /\ pair.ytd > next_ytd * STATE_YTD_SPIKE_MULTIPLIER
    /\ pair.this_period <= next_ytd + Max2(tol, 5)

\* the rule chain of one occurrence: the corrected values and the reason, or
\* corrected_ytd = None when no rule repairs
RepairDecision(pair, prev_ytd, next_ytd, peer_ytds, tol) ==
    LET current_ytd == pair.ytd
        keep == [NoRepair EXCEPT !.corrected_this = pair.this_period]
    IN  IF prev_ytd # None /\ next_ytd # None
           /\ Abs(prev_ytd - next_ytd) <= STATE_YTD_NEIGHBOR_TOLERANCE
        THEN LET anchor_ytd == NeighborAnchor(prev_ytd, next_ytd)
             IN  IF /\ current_ytd > anchor_ytd + STATE_YTD_OUTLIER_MIN_ABS
                    /\ current_ytd > anchor_ytd * STATE_YTD_SPIKE_MULTIPLIER
                 THEN [corrected_ytd |-> anchor_ytd,
                       corrected_this |->
                            IF RedundantThisPeriod(pair, anchor_ytd, tol)
                            THEN None ELSE pair.this_period,
                       reason |-> "neighbor_consistency"]
                 ELSE keep
        ELSE IF prev_ytd = None /\ next_ytd # None /\ pair.this_period # None
        THEN IF OpeningEntrySpike(pair, next_ytd, tol)
             THEN [corrected_ytd |-> pair.this_period, corrected_this |-> pair.this_period,
                   reason |-> "opening_entry_spike"]
             ELSE keep
        ELSE IF prev_ytd # None /\ next_ytd = None /\ pair.this_period # None
        THEN IF /\ current_ytd > prev_ytd + STATE_YTD_OUTLIER_MIN_ABS
                /\ current_ytd > prev_ytd * STATE_YTD_SPIKE_MULTIPLIER
                /\ Abs(pair.this_period - prev_ytd) <= 50
                /\ (pair.source_line = NoLine \/ ~HasMinus(pair.source_line))
             THEN [corrected_ytd |-> prev_ytd, corrected_this |-> None,
                   reason |-> "closing_entry_spike"]
             ELSE keep
        ELSE LET baseline_prev_ytd == IF peer_ytds # {} THEN SetMax(peer_ytds) ELSE prev_ytd
             IN  IF /\ baseline_prev_ytd # None
                    /\ pair.this_period = None
                    /\ current_ytd < baseline_prev_ytd - STATE_YTD_OUTLIER_MIN_ABS
                 THEN LET projected_ytd == baseline_prev_ytd + current_ytd
                          is_valid_underflow ==
                              ~(next_ytd # None
                                /\ next_ytd < projected_ytd - STATE_YTD_NEIGHBOR_TOLERANCE)
                      IN  IF is_valid_underflow
                          THEN [corrected_ytd |-> projected_ytd, corrected_this |-> current_ytd,
                                reason |-> "state_ytd_underflow_corrected"]
                          ELSE keep
                 ELSE keep

\* one iteration of the inner loop: the occurrence at position is repaired in
\* place, and one issue and one note are recorded
RepairPosition(acc, state, indices, position, tol) ==
    LET repaired == acc.snapshots
        idx == indices[position]
        snap == repaired[idx]
        pair == snap.state_income_tax[state]
        d == RepairDecision(pair,
                            PrevYtd(repaired, state, indices, position),
                            NextYtd(repaired, state, indices, position),
                            SameCyclePeerYtds(repaired, state, indices, position), tol)
    IN  IF d.corrected_ytd = None THEN acc
        ELSE [snapshots |->
                [repaired EXCEPT ![idx].state_income_tax[state] =
                    AmountPair(d.corrected_this, d.corrected_ytd, pair.source_line)],
              issues |->
                Append(acc.issues,
                    [severity |-> "warning",
                     code |-> IF d.reason = "state_ytd_underflow_corrected" THEN d.reason
                              ELSE "state_ytd_outlier_corrected",
                     subject |-> state,
                     target |-> IF snap.pay_date # None THEN snap.pay_date ELSE snap.file,
                     detail |-> <<pair.ytd, d.corrected_ytd, d.reason>>]),
              notes |->
                Put(acc.notes, snap.file,
                    Append(IF snap.file \in DOMAIN acc.notes THEN acc.notes[snap.file] ELSE <<>>,
                           <<state, pair.ytd, d.corrected_ytd>>))]

RECURSIVE RepairPositions(_, _, _, _, _)
RepairPositions(acc, state, indices, position, tol) ==
    IF position > Len(indices) THEN acc
    ELSE RepairPositions(RepairPosition(acc, state, indices, position, tol),
                         state, indices, position + 1, tol)

RECURSIVE RepairStates(_, _, _)
RepairStates(acc, states, tol) ==
    IF Len(states) = 0 THEN acc
    ELSE RepairStates(
            RepairPositions(acc, Head(states), StateIndices(acc.snapshots, Head(states)), 1, tol),
            Tail(states), tol)

verify_and_repair_state_ytd_anomalies(snaps, tol) ==
    IF Len(snaps) = 0 THEN [snapshots |-> snaps, issues |-> <<>>, notes |-> << >>]
    ELSE RepairStates([snapshots |-> clone_snapshots(snaps), issues |-> <<>>, notes |-> << >>],
                      SortedStates(UNION {DOMAIN snaps[i].state_income_tax : i \in 1..Len(snaps)}),
                      tol)

----------------------------------------------------------------------------
(* annual.py: promote_ytd_candidates (zero-period YTD promotion) *)

\* the fields the promotion looks at: the three statutory taxes, then the
\* states of the snapshot
PromotionFields(snap) ==
    <<"federal_income_tax", "social_security_tax", "medicare_tax">>
        \o SortedStates(DOMAIN snap.state_income_tax)

IsStatutory(field) == field \in {"federal_income_tax", "social_security_tax", "medicare_tax"}

\* the pair of a field of a snapshot (an empty pair for a state it lacks)
FieldPair(snap, field) ==
    IF IsStatutory(field) THEN snap[field]
    ELSE IF field \in DOMAIN snap.state_income_tax THEN snap.state_income_tax[field]
    ELSE EmptyPair

\* the ytd of the field in the nearest earlier snapshot that has one
NearestPriorYtd(snaps, field, position) ==
    LET known == {j \in 1..(position - 1) : FieldPair(snaps[j], field).ytd # None}
    IN  IF known = {} THEN None
        ELSE FieldPair(snaps[CHOOSE j \in known : \A o \in known : o <= j], field).ytd

\* a single amount that may be a YTD: no ytd and a positive this_period
IsYtdCandidate(pair) == pair.ytd = None /\ pair.this_period # None /\ pair.this_period > 0

\* as IsMonotonic, but any candidate is accepted
IsMonotonic_always(candidate, prior) == TRUE

\* the promoted value does not fall below the prior ytd
IsMonotonic(candidate, prior) == prior = None \/ candidate >= prior

SetFieldPair(snap, field, pair) ==
    IF IsStatutory(field) THEN [snap EXCEPT ![field] = pair]
    ELSE [snap EXCEPT !.state_income_tax[field] = pair]

\* one field of the last snapshot: promoted, rejected or left alone
PromoteField(acc, snaps, field) ==
    LET n == Len(snaps)
        pair == FieldPair(snaps[n], field)
        prior == NearestPriorYtd(snaps, field, n)
    IN  IF ~IsYtdCandidate(pair) THEN acc
        ELSE IF IsMonotonic(pair.this_period, prior)
        THEN [snapshots |->
                [acc.snapshots EXCEPT ![n] =
                    SetFieldPair(@, field, AmountPair(None, pair.this_period, pair.source_line))],
              issues |->
                Append(acc.issues,
                    [severity |-> "warning", code |-> "zero_period_ytd_promoted",
                     subject |-> field, target |-> snaps[n].pay_date,
                     detail |-> <<pair.this_period, prior>>])]
        ELSE [snapshots |-> acc.snapshots,
              issues |->
                Append(acc.issues,
                    [severity |-> "warning", code |-> "zero_period_ytd_promotion_rejected",
                     subject |-> field, target |-> snaps[n].pay_date,
                     detail |-> <<pair.this_period, prior>>])]

RECURSIVE PromoteFields(_, _, _)
PromoteFields(acc, snaps, fields) ==
    IF Len(fields) = 0 THEN acc
    ELSE PromoteFields(PromoteField(acc, snaps, Head(fields)), snaps, Tail(fields))

\* promote_ytd_candidates(snapshots, tolerance): the stage acts when the last
\* snapshot shows a gross pay of 0.00 for the period
promote_ytd_candidates(snaps) ==
    IF Len(snaps) = 0 THEN [snapshots |-> snaps, issues |-> <<>>]
    ELSE IF snaps[Len(snaps)].gross_pay.this_period # 0
    THEN [snapshots |-> snaps, issues |-> <<>>]
    ELSE PromoteFields([snapshots |-> snaps, issues |-> <<>>], snaps,
                       PromotionFields(snaps[Len(snaps)]))

----------------------------------------------------------------------------
(* annual.py: deduplicate_by_pay_date *)

row_total_state_ytd(snap) == sum_state_ytd(snap.state_income_tax)

\* as snapshot_quality_tuple, but completeness is not counted
snapshot_quality_tuple_uncounted(snap) ==
    << 0,
       IF snap.gross_pay.ytd = None THEN 0 ELSE snap.gross_pay.ytd,
       IF snap.federal_income_tax.ytd = None THEN 0 ELSE snap.federal_income_tax.ytd,
       row_total_state_ytd(snap),
       snap.file >>

snapshot_quality_tuple(snap) ==
    LET candidates == << snap.gross_pay.ytd, snap.federal_income_tax.ytd,
                         snap.social_security_tax.ytd, snap.medicare_tax.ytd,
                         row_total_state_ytd(snap) >>
        completeness == Cardinality({i \in 1..Len(candidates) : candidates[i] # None})
    IN  << completeness,
           IF snap.gross_pay.ytd = None THEN 0 ELSE snap.gross_pay.ytd,
           IF snap.federal_income_tax.ytd = None THEN 0 ELSE snap.federal_income_tax.ytd,
           row_total_state_ytd(snap),
           snap.file >>

\* tuple comparison, element by element
TupleLess(a, b) ==
    \E i \in 1..Len(a) : a[i] < b[i] /\ \A j \in 1..(i - 1) : a[j] = b[j]

\* sorted(group, key=snapshot_quality_tuple)[-1]: the last of the greatest
BestOf(group) ==
    group[CHOOSE i \in 1..Len(group) :
            \A j \in 1..Len(group) :
                /\ ~TupleLess(snapshot_quality_tuple(group[i]), snapshot_quality_tuple(group[j]))
                /\ (snapshot_quality_tuple(group[j]) = snapshot_quality_tuple(group[i]) => j <= i)]

\* no pay date overrides: None or {}
NoOverrides == << >>

\* an override value that is not an ISO date
BadDate == -1

\* the override of a snapshot that changes its pay date, or None
OverrideFor(snap, overrides) ==
    IF snap.file \in DOMAIN overrides
          /\ overrides[snap.file] # BadDate
          /\ overrides[snap.file] # snap.pay_date
    THEN overrides[snap.file] ELSE None

\* as apply_manual_pay_date_overrides, but the adjusted list is left as it is
apply_manual_pay_date_overrides_unsorted(snaps, overrides) ==
    [snapshots |->
        [i \in 1..Len(snaps) |->
            IF OverrideFor(snaps[i], overrides) # None
            THEN [snaps[i] EXCEPT !.pay_date = OverrideFor(snaps[i], overrides)]
            ELSE snaps[i]],
     issues |-> <<>>]

apply_manual_pay_date_overrides(snaps, overrides) ==
    IF Len(snaps) = 0 THEN [snapshots |-> <<>>, issues |-> <<>>]
    ELSE IF DOMAIN overrides = {} THEN [snapshots |-> snaps, issues |-> <<>>]
    ELSE LET changed == SelectSeq(snaps, LAMBDA s : OverrideFor(s, overrides) # None)
         IN  [snapshots |->
                SortSnapshots([i \in 1..Len(snaps) |->
                    IF OverrideFor(snaps[i], overrides) # None
                    THEN [snaps[i] EXCEPT !.pay_date = OverrideFor(snaps[i], overrides)]
                    ELSE snaps[i]]),
              issues |->
                [i \in 1..Len(changed) |->
                    [severity |-> "warning", code |-> "pay_date_override_applied",
                     subject |-> "file", target |-> changed[i].file,
                     detail |-> <<changed[i].pay_date, OverrideFor(changed[i], overrides)>>]]]

\* the ascending sequence of a set of pay dates
RECURSIVE SortedDates(_)
SortedDates(S) ==
    IF S = {} THEN <<>>
    ELSE LET least == CHOOSE d \in S : \A o \in S : d <= o
         IN  <<least>> \o SortedDates(S \ {least})

\* one iteration of the loop over sorted(grouped)
DedupGroup(acc, group, pay_date) ==
    IF Len(group) = 1 THEN [acc EXCEPT !.canonical = Append(@, group[1])]
    ELSE LET best == BestOf(group)
             ignored == SelectSeq([i \in 1..Len(group) |-> group[i].file],
                                  LAMBDA f : f # best.file)
         IN  [canonical |-> Append(acc.canonical, best),
              issues |-> Append(acc.issues,
                    [severity |-> "warning", code |-> "duplicate_pay_date",
                     subject |-> "pay_date", target |-> pay_date,
                     detail |-> <<Len(group), best.file, ignored>>])]

RECURSIVE DedupGroups(_, _, _)
DedupGroups(acc, normalized, dates) ==
    IF Len(dates) = 0 THEN acc
    ELSE DedupGroups(
            DedupGroup(acc, SelectSeq(normalized, LAMBDA s : s.pay_date = Head(dates)), Head(dates)),
            normalized, Tail(dates))

\* canonical.extend(no_date); canonical.sort(key=snapshot_sort_key)
DedupSorted(picked, no_date) ==
    [canonical |-> SortSnapshots(picked.canonical \o no_date), issues |-> picked.issues]

\* the grouping and selection, on the result of the overrides
DedupNormalized(applied) ==
    LET normalized == applied.snapshots
        no_date == SelectSeq(normalized, LAMBDA s : s.pay_date = None)
        dates == {normalized[i].pay_date : i \in 1..Len(normalized)} \ {None}
    IN  DedupSorted(DedupGroups([canonical |-> <<>>, issues |-> applied.issues],
                                normalized, SortedDates(dates)),
                    no_date)

deduplicate_by_pay_date(snaps, overrides) ==
    DedupNormalized(apply_manual_pay_date_overrides(snaps, overrides))

----------------------------------------------------------------------------
(* annual.py: verify_ytd_calculations, run_consistency_checks *)

ConsistencyIssue(severity, code, subject, target, detail) ==
    [severity |-> severity, code |-> code, subject |-> subject, target |-> target,
     detail |-> detail]

\* the two checks verify_ytd_calculations makes on one field or state of two
\* consecutive snapshots
YtdCalcIssues(label, prev_pair, curr_pair, pay_date, tol, decrease_code, mismatch_code) ==
    IF prev_pair.ytd = None \/ curr_pair.ytd = None THEN <<>>
    ELSE (IF curr_pair.ytd + tol < prev_pair.ytd
          THEN <<ConsistencyIssue("warning", decrease_code, label, pay_date,
                                  <<prev_pair.ytd, curr_pair.ytd>>)>>
          ELSE <<>>)
         \o (IF curr_pair.this_period # None
                 /\ Abs(curr_pair.ytd - (prev_pair.ytd + curr_pair.this_period)) > tol
             THEN <<ConsistencyIssue("warning", mismatch_code, label, pay_date,
                                     <<curr_pair.ytd, prev_pair.ytd + curr_pair.this_period>>)>>
             ELSE <<>>)

\* the issues of verify_ytd_calculations (its notes go to the ledger only)
verify_ytd_calculations(snaps, tol) ==
    LET fields == <<"gross_pay", "federal_income_tax", "social_security_tax", "medicare_tax">>
        step(i) ==
            LET prev == snaps[i - 1]
                curr == snaps[i]
                states == SortedStates({c \in DOMAIN prev.state_income_tax \cup
                                              DOMAIN curr.state_income_tax :
                                          /\ c \in DOMAIN prev.state_income_tax
                                          /\ c \in DOMAIN curr.state_income_tax})
            IN  Flatten([k \in 1..Len(fields) |->
                            YtdCalcIssues(fields[k], prev[fields[k]], curr[fields[k]],
                                          curr.pay_date, tol,
                                          "ytd_calc_decrease", "ytd_calc_mismatch")])
                \o Flatten([k \in 1..Len(states) |->
                            YtdCalcIssues(states[k], prev.state_income_tax[states[k]],
                                          curr.state_income_tax[states[k]], curr.pay_date, tol,
                                          "state_ytd_decrease", "state_ytd_calc_mismatch")])
    IN  Flatten([i \in 1..(Len(snaps) - 1) |-> step(i + 1)])

pair_attr(snap, key) ==
    CASE key = "gross_pay" -> snap.gross_pay
      [] key = "federal_tax" -> snap.federal_income_tax
      [] key = "social_security_tax" -> snap.social_security_tax
      [] key = "medicare_tax" -> snap.medicare_tax

\* check_monotonic, given the value the getter yields for each snapshot: each
\* value is compared with the last value before it that is not None
\* as check_monotonic, but every decrease is reported as critical
check_monotonic_critical(snaps, label, values, tol, severity) ==
    LET present == SelectSeq([i \in 1..Len(snaps) |-> i], LAMBDA i : values[i] # None)
    IN  Flatten([k \in 1..(Len(present) - 1) |->
            LET previous == values[present[k]]
                current == values[present[k + 1]]
            IN  IF current + tol < previous
                THEN <<ConsistencyIssue("critical", "ytd_decrease", label,
                                        snaps[present[k + 1]].pay_date, <<previous, current>>)>>
                ELSE <<>>])

check_monotonic(snaps, label, values, tol, severity) ==
    LET present == SelectSeq([i \in 1..Len(snaps) |-> i], LAMBDA i : values[i] # None)
    IN  Flatten([k \in 1..(Len(present) - 1) |->
            LET previous == values[present[k]]
                current == values[present[k + 1]]
            IN  IF current + tol < previous
                THEN <<ConsistencyIssue(severity, "ytd_decrease", label,
                                        snaps[present[k + 1]].pay_date, <<previous, current>>)>>
                ELSE <<>>])

check_this_period_consistency(snaps, pair_name, tol) ==
    Flatten([i \in 1..(Len(snaps) - 1) |->
        LET prev_pair == pair_attr(snaps[i], pair_name)
            pair == pair_attr(snaps[i + 1], pair_name)
        IN  IF prev_pair.ytd = None \/ pair.ytd = None \/ pair.this_period = None THEN <<>>
            ELSE IF pair.ytd - prev_pair.ytd < 0 THEN <<>>
            ELSE IF Abs((pair.ytd - prev_pair.ytd) - pair.this_period) > tol
            THEN <<ConsistencyIssue("warning", "this_period_vs_ytd_delta", pair_name,
                                    snaps[i + 1].pay_date,
                                    <<pair.this_period, pair.ytd - prev_pair.ytd>>)>>
            ELSE <<>>])

\* as MissingFinalFields, but gross pay is not among the tested values
MissingFinalFields_taxes_only(final) ==
    (IF final.federal_income_tax.ytd = None THEN <<"federal_income_tax_ytd">> ELSE <<>>)
    \o (IF final.social_security_tax.ytd = None THEN <<"social_security_tax_ytd">> ELSE <<>>)
    \o (IF final.medicare_tax.ytd = None THEN <<"medicare_tax_ytd">> ELSE <<>>)

\* as MissingFinalFields, but an amount counts as present only when the
\* period column holds it
MissingFinalFields_this_period(final) ==
    (IF final.federal_income_tax.this_period = None THEN <<"federal_income_tax_ytd">> ELSE <<>>)
    \o (IF final.social_security_tax.this_period = None THEN <<"social_security_tax_ytd">> ELSE <<>>)
    \o (IF final.medicare_tax.this_period = None THEN <<"medicare_tax_ytd">> ELSE <<>>)
    \o (IF final.gross_pay.this_period = None THEN <<"gross_pay_ytd">> ELSE <<>>)

\* the final snapshot's required YTD values that are None, in the order tested
MissingFinalFields(final) ==
    (IF final.federal_income_tax.ytd = None THEN <<"federal_income_tax_ytd">> ELSE <<>>)
    \o (IF final.social_security_tax.ytd = None THEN <<"social_security_tax_ytd">> ELSE <<>>)
    \o (IF final.medicare_tax.ytd = None THEN <<"medicare_tax_ytd">> ELSE <<>>)
    \o (IF final.gross_pay.ytd = None THEN <<"gross_pay_ytd">> ELSE <<>>)

\* the checks of run_consistency_checks on the deduplicated snapshots
ConsistencyChecks(dedup, tol) ==
    LET canon == dedup.canonical
        gross == [i \in 1..Len(canon) |-> canon[i].gross_pay.ytd]
        federal == [i \in 1..Len(canon) |-> canon[i].federal_income_tax.ytd]
        social == [i \in 1..Len(canon) |-> canon[i].social_security_tax.ytd]
        medicare == [i \in 1..Len(canon) |-> canon[i].medicare_tax.ytd]
        state_total == [i \in 1..Len(canon) |-> row_total_state_ytd(canon[i])]
        pair_names == <<"federal_tax", "social_security_tax", "medicare_tax">>
    IN  dedup.issues
        \o check_monotonic(canon, "Gross pay", gross, tol, "critical")
        \o check_monotonic(canon, "Federal income tax", federal, tol, "warning")
        \o check_monotonic(canon, "Social Security tax", social, tol, "warning")
        \o check_monotonic(canon, "Medicare tax", medicare, tol, "warning")
        \o check_monotonic(canon, "State income tax total", state_total, tol, "warning")
        \o Flatten([k \in 1..Len(pair_names) |->
                        check_this_period_consistency(canon, pair_names[k], tol)])
        \o (IF Len(canon) > 0 /\ Len(MissingFinalFields(canon[Len(canon)])) > 0
            THEN <<ConsistencyIssue("critical", "missing_final_values", "final",
                                    canon[Len(canon)].file, MissingFinalFields(canon[Len(canon)]))>>
            ELSE <<>>)

run_consistency_checks(snaps, tol, overrides) ==
    ConsistencyChecks(deduplicate_by_pay_date(snaps, overrides), tol)

----------------------------------------------------------------------------
(* annual.py: extracted_summary *)

SummaryPair(pair) ==
    [this_period |-> as_float(pair.this_period), ytd |-> as_float(pair.ytd),
     evidence |-> pair.source_line]

extracted_summary(snap) ==
    [gross_pay |-> SummaryPair(snap.gross_pay),
     federal_income_tax |-> SummaryPair(snap.federal_income_tax),
     social_security_tax |-> SummaryPair(snap.social_security_tax),
     medicare_tax |-> SummaryPair(snap.medicare_tax),
     k401_contrib |-> SummaryPair(snap.k401_contrib),
     state_income_tax |-> [st \in DOMAIN snap.state_income_tax |->
                              SummaryPair(snap.state_income_tax[st])]]

----------------------------------------------------------------------------
(* utils/corrections.py *)

Absent == "<absent>"
WarningReason == "WARNING: Cannot override bare 'state_income_tax'. Skipping."

\* box_map.get(key, key)
box_map(key) ==
    CASE key = "box1" -> "gross_pay"
      [] key = "box2" -> "federal_income_tax"
      [] key = "box3" -> "social_security_wages"
      [] key = "box4" -> "social_security_tax"
      [] key = "box5" -> "medicare_wages"
      [] key = "box6" -> "medicare_tax"
      [] OTHER -> key

\* target_key.startswith("state_income_tax_") and len(target_key) == 19
IsStateKey(target_key) ==
    \E i \in 1..Len(StateCodes) : target_key = "state_income_tax_" \o StateCodes[i]

\* target_key.split("_")[-1]
StateCodeOf(target_key) ==
    StateCodes[CHOOSE i \in 1..Len(StateCodes) : target_key = "state_income_tax_" \o StateCodes[i]]

TraceEntry(field, old_val, new_val, reason, timestamp) ==
    [corrected_field |-> field, original_value |-> old_val, corrected_value |-> new_val,
     reason |-> reason, timestamp |-> timestamp]

\* correction.get("timestamp", now) and correction.get("audit_reason", "Manual Correction")
TimestampOf(correction) ==
    IF correction.timestamp = Absent THEN "now" ELSE correction.timestamp
ReasonOf(correction) ==
    IF correction.audit_reason = Absent THEN "Manual Correction" ELSE correction.audit_reason

\* as Corrected, but the field dict is rebuilt from the new value alone
Corrected_rebuilt(field_dict, new_val, reason) ==
    Put(Put(Put([k \in DOMAIN field_dict |-> IF k = "evidence" THEN field_dict[k] ELSE None],
                "ytd", new_val), "is_corrected", TRUE), "correction_reason", reason)

\* a field dict with its ytd overwritten and the correction marks added
Corrected(field_dict, new_val, reason) ==
    Put(Put(Put(field_dict, "ytd", new_val), "is_corrected", TRUE), "correction_reason", reason)

\* the top-level keys whose value is a dict holding "ytd"; the keys of
\* ScalarKeys hold plain values in the trees of this model
ScalarKeys == {"tax_year"}
DictFields(eff) == {k \in DOMAIN eff \ ScalarKeys : "ytd" \in DOMAIN eff[k]}

\* as IsBareStateKey, but the bare key is let through to the overwrite branches
IsBareStateKey_allowed(target_key) == FALSE

\* if target_key == "state_income_tax": the key that names no state
IsBareStateKey(target_key) == target_key = "state_income_tax"

\* one iteration of the loop over corrections.items()
ApplyCorrection(acc, correction) ==
    LET eff == acc.effective
        trace == acc.trace
        target0 == box_map(correction.key)
    IN  IF ~correction.is_dict THEN acc
        ELSE IF IsBareStateKey(target0)
        THEN [effective |-> eff,
              trace |-> Append(trace, TraceEntry(target0, None, None, WarningReason,
                                                 TimestampOf(correction)))]
        ELSE
        LET is_state == IsStateKey(target0)
            target_key == IF is_state THEN "state_income_tax" ELSE target0
            eff1 == IF target_key \notin DOMAIN eff
                       /\ target_key \in {"social_security_wages", "medicare_wages"}
                    THEN Put(eff, target_key, [ytd |-> None])
                    ELSE eff
            new_val == correction.value
            reason == ReasonOf(correction)
            timestamp == TimestampOf(correction)
        IN  IF target_key \notin DOMAIN eff1 THEN [effective |-> eff1, trace |-> trace]
            ELSE IF is_state
            THEN LET state_code == StateCodeOf(target0)
                     states == eff1[target_key]
                     entry == IF state_code \in DOMAIN states THEN states[state_code]
                              ELSE [this_period |-> None]
                     old_val == Get(entry, "ytd")
                 IN  [effective |-> Put(eff1, target_key,
                                        Put(states, state_code, Corrected(entry, new_val, reason))),
                      trace |-> Append(trace, TraceEntry("state_income_tax_" \o state_code,
                                                         old_val, new_val, reason, timestamp))]
            ELSE IF target_key \in DictFields(eff1)
            THEN [effective |-> Put(eff1, target_key, Corrected(eff1[target_key], new_val, reason)),
                  trace |-> Append(trace, TraceEntry(target_key, eff1[target_key]["ytd"],
                                                     new_val, reason, timestamp))]
            ELSE [effective |-> Put(eff1, target_key, new_val),
                  trace |-> Append(trace, TraceEntry(target_key, eff1[target_key],
                                                     new_val, reason, timestamp))]

RECURSIVE ApplyCorrections(_, _)
ApplyCorrections(acc, corrs) ==
    IF Len(corrs) = 0 THEN acc
    ELSE ApplyCorrections(ApplyCorrection(acc, Head(corrs)), Tail(corrs))

\* as merge_corrections, but the last correction is applied first
merge_corrections_reversed(data, corrs) ==
    ApplyCorrections([effective |-> data, trace |-> <<>>],
                     [i \in 1..Len(corrs) |-> corrs[Len(corrs) + 1 - i]])

merge_corrections(data, corrs) ==
    ApplyCorrections([effective |-> data, trace |-> <<>>], corrs)

----------------------------------------------------------------------------
(* filing_rules.py *)

required_fields == <<"gross_pay", "federal_income_tax", "social_security_tax", "medicare_tax">>

\* extracted_values: the nested "extracted" dict unless the dict is flat
ExtractedValues(data) ==
    IF "gross_pay" \in DOMAIN data THEN data
    ELSE IF "extracted" \in DOMAIN data THEN data["extracted"]
    ELSE << >>

\* extracted_values.get(field, {}).get("ytd")
FieldYtd(values, field) ==
    IF field \in DOMAIN values /\ "ytd" \in DOMAIN values[field]
    THEN values[field]["ytd"] ELSE None

MissingFieldErrors(data) ==
    LET values == ExtractedValues(data)
        missing == {i \in 1..Len(required_fields) : FieldYtd(values, required_fields[i]) = None}
    IN  [i \in 1..Len(required_fields) |->
            IF i \in missing THEN <<[kind |-> "missing_field", field |-> required_fields[i]]>>
            ELSE <<>>]

\* as ComparisonVerdict, but a mismatch blocks only when it reaches twice the
\* tolerance and a missing W-2 value is let through
ComparisonVerdict_lenient(comp, tol) ==
    LET status == comp.status
        diff == IF comp.difference = None THEN 0 ELSE Abs(comp.difference)
    IN  IF status = "mismatch"
        THEN IF diff > 2 * tol + 1
             THEN [errors |-> <<[kind |-> "mismatch", field |-> comp.field]>>, warnings |-> <<>>]
             ELSE [errors |-> <<>>, warnings |-> <<[kind |-> "minor_mismatch", field |-> comp.field]>>]
        ELSE IF status = "review_needed"
        THEN [errors |-> <<>>, warnings |-> <<[kind |-> "review_needed", field |-> comp.field]>>]
        ELSE IF status = "missing_paystub_value"
        THEN [errors |-> <<[kind |-> "missing_value", field |-> comp.field]>>, warnings |-> <<>>]
        ELSE [errors |-> <<>>, warnings |-> <<>>]

\* the branch of the comparison loop taken by one row
ComparisonVerdict(comp, tol) ==
    LET status == comp.status
        diff == IF comp.difference = None THEN 0 ELSE Abs(comp.difference)
    IN  IF status = "mismatch"
        THEN IF diff > tol
             THEN [errors |-> <<[kind |-> "mismatch", field |-> comp.field]>>, warnings |-> <<>>]
             ELSE [errors |-> <<>>, warnings |-> <<[kind |-> "minor_mismatch", field |-> comp.field]>>]
        ELSE IF status = "review_needed"
        THEN [errors |-> <<>>, warnings |-> <<[kind |-> "review_needed", field |-> comp.field]>>]
        ELSE IF status \in {"missing_paystub_value", "missing_w2_value"}
        THEN [errors |-> <<[kind |-> "missing_value", field |-> comp.field]>>, warnings |-> <<>>]
        ELSE [errors |-> <<>>, warnings |-> <<>>]

\* the branch of the consistency loop taken by one issue
IssueVerdict(issue) ==
    IF issue.severity = "critical"
    THEN [errors |-> <<[kind |-> "critical_issue", field |-> issue.code]>>, warnings |-> <<>>]
    ELSE [errors |-> <<>>, warnings |-> <<[kind |-> "consistency_warning", field |-> issue.code]>>]

validate_filing_safety(data, comps, issues, tol) ==
    LET cv == [i \in 1..Len(comps) |-> ComparisonVerdict(comps[i], tol)]
        iv == [i \in 1..Len(issues) |-> IssueVerdict(issues[i])]
        errors == Flatten(MissingFieldErrors(data))
                    \o Flatten([i \in 1..Len(comps) |-> cv[i].errors])
                    \o Flatten([i \in 1..Len(issues) |-> iv[i].errors])
        warnings == Flatten([i \in 1..Len(comps) |-> cv[i].warnings])
                    \o Flatten([i \in 1..Len(issues) |-> iv[i].warnings])
    IN  [passed |-> Len(errors) = 0, errors |-> errors, warnings |-> warnings]

----------------------------------------------------------------------------
(* annual.py: analyze_filer *)

\* An optional W-2 dict is a sequence: empty for None, else the dict.
NoneW2 == <<>>

\* bool(w2_data)
Truthy(w2_opt) == Len(w2_opt) = 1 /\ DOMAIN w2_opt[1] # {}

\* the keys compare_snapshot_to_w2 reads with w2_data.get
W2Fields(w2) ==
    [box_1_wages_tips_other_comp |-> Get(w2, "box_1_wages_tips_other_comp"),
     box_2_federal_income_tax_withheld |-> Get(w2, "box_2_federal_income_tax_withheld"),
     box_4_social_security_tax_withheld |-> Get(w2, "box_4_social_security_tax_withheld"),
     box_6_medicare_tax_withheld |-> Get(w2, "box_6_medicare_tax_withheld"),
     state_boxes |-> IF "state_boxes" \in DOMAIN w2 THEN w2["state_boxes"] ELSE <<>>]

to_cents(x) == IF "ytd" \in DOMAIN x /\ x["ytd"] # None THEN x["ytd"] ELSE 0

\* (value or 0.0) * 100
OrZero(x) == IF x = None THEN 0 ELSE x

\* w2_aggregate of a W-2 dict that carries no aggregate of its own, and the
\* zero aggregate of a filer without W-2 data
W2Aggregate(w2_opt) ==
    IF Truthy(w2_opt)
    THEN [box1_wages_cents |-> OrZero(Get(w2_opt[1], "box_1_wages_tips_other_comp")),
          box2_fed_tax_cents |-> OrZero(Get(w2_opt[1], "box_2_federal_income_tax_withheld")),
          box4_social_security_tax_cents |->
                OrZero(Get(w2_opt[1], "box_4_social_security_tax_withheld")),
          box6_medicare_tax_cents |-> OrZero(Get(w2_opt[1], "box_6_medicare_tax_withheld"))]
    ELSE [box1_wages_cents |-> 0, box2_fed_tax_cents |-> 0,
          box4_social_security_tax_cents |-> 0, box6_medicare_tax_cents |-> 0]

\* ready_to_file = filing_safety.passed and bool(w2_data)
ReadyToFile(passed, w2_opt) == passed /\ Truthy(w2_opt)

\* the filer report and the metadata analyze_filer returns; call holds the
\* arguments of analyze_filer
FilerResult(call, canonical_snapshots, final_snapshot, issues, comps, merged, safety, ready) ==
    [public |->
        [id |-> call.filer_id,
         role |-> call.role,
         gross_pay_cents |-> to_cents(merged.effective["gross_pay"]),
         fed_tax_cents |-> to_cents(merged.effective["federal_income_tax"]),
         state_tax_by_state_cents |->
            [c \in DOMAIN merged.effective["state_income_tax"] |->
                to_cents(merged.effective["state_income_tax"][c])],
         status |-> IF ready THEN "MATCH" ELSE "REVIEW_NEEDED",
         audit_flags |-> safety.errors \o safety.warnings,
         correction_trace |-> merged.trace,
         w2_source_count |-> IF Truthy(call.w2_data)
                             THEN (IF "w2_source_count" \in DOMAIN call.w2_data[1]
                                   THEN call.w2_data[1]["w2_source_count"] ELSE 1)
                             ELSE 0,
         w2_aggregate |-> W2Aggregate(call.w2_data)],
     meta |->
        [paystub_count_raw |-> Len(call.snapshots),
         paystub_count_canonical |-> Len(canonical_snapshots),
         latest_pay_date |-> final_snapshot.pay_date,
         latest_paystub_file |-> final_snapshot.file,
         extracted |-> merged.effective,
         filing_safety |-> safety,
         consistency_issues |-> issues,
         comparisons |-> comps]]

\* the readiness the gate result leads to
AnalyzeGate(call, canonical_snapshots, final_snapshot, issues, comps, merged, safety) ==
    FilerResult(call, canonical_snapshots, final_snapshot, issues, comps, merged, safety,
                ReadyToFile(safety.passed, call.w2_data))

\* the gate on the effective values
AnalyzeFinal(call, canonical_snapshots, final_snapshot, issues, comps, merged) ==
    AnalyzeGate(call, canonical_snapshots, final_snapshot, issues, comps, merged,
                validate_filing_safety(merged.effective, comps, issues, call.tolerance))

\* the issues collected over the canonical snapshots, the comparison of the
\* final snapshot with the W-2, and the corrections
AnalyzeCanonical(call, applied, repair, dedup, final_snapshot) ==
    AnalyzeFinal(call, dedup.canonical, final_snapshot,
                 repair.issues \o verify_ytd_calculations(dedup.canonical, call.tolerance)
                    \o applied.issues \o dedup.issues
                    \o run_consistency_checks(dedup.canonical, call.tolerance, NoOverrides),
                 IF Len(call.w2_data) = 1
                 THEN compare_snapshot_to_w2(final_snapshot, W2Fields(call.w2_data[1]),
                                             call.tolerance)
                 ELSE <<>>,
                 merge_corrections(extracted_summary(final_snapshot), call.corrections))

AnalyzeVerified(call, applied, repair, dedup) ==
    AnalyzeCanonical(call, applied, repair, dedup, dedup.canonical[Len(dedup.canonical)])

AnalyzeNormalized(call, applied, repair) ==
    AnalyzeVerified(call, applied, repair,
                    deduplicate_by_pay_date(repair.snapshots, NoOverrides))

\* as AnalyzeOverridden, but the repair reads the snapshots as they were given
AnalyzeOverridden_late(call, applied) ==
    AnalyzeNormalized(call, applied,
                      verify_and_repair_state_ytd_anomalies(SortSnapshots(call.snapshots),
                                                            call.tolerance))

AnalyzeOverridden(call, applied) ==
    AnalyzeNormalized(call, applied,
                      verify_and_repair_state_ytd_anomalies(applied.snapshots, call.tolerance))

\* analyze_filer on a non-empty snapshot list, stage by stage: overrides,
\* state YTD repair, deduplication, issues, comparison, corrections, gate (the
\* ledgers and the authenticity score, which nothing else reads, are left out)
analyze_filer(snaps, tol, w2_opt, filer_id, role, corrs, overrides) ==
    AnalyzeOverridden([snapshots |-> snaps, tolerance |-> tol, w2_data |-> w2_opt,
                       filer_id |-> filer_id, role |-> role, corrections |-> corrs],
                      apply_manual_pay_date_overrides(snaps, overrides))

----------------------------------------------------------------------------
(* Inputs of the gate *)

MaxRows == 2
MaxIssues == 1

Statuses == {"match", "mismatch", "review_needed", "missing_paystub_value", "missing_w2_value"}
GateDifferences == {None, 1, -2}
GateTolerances == {0, 1}
GateRows == [field : {"federal_income_tax_withheld"}, status : Statuses, difference : GateDifferences]
GateIssues == [severity : {"critical", "warning"}, code : {"ytd_decrease"}]

\* a field of the extracted dict: absent, present with a null ytd, or present
FieldShapes == {"absent", "null", "value"}
FieldDict(shape) == [ytd |-> IF shape = "null" THEN None ELSE 10000]

FlatDict(shapes) ==
    [f \in {required_fields[i] : i \in {j \in 1..4 : shapes[j] # "absent"}} |->
        FieldDict(shapes[CHOOSE i \in 1..4 : required_fields[i] = f])]

GateExtracted ==
    LET shapeSets == {s \in [1..4 -> FieldShapes] : s[3] # "absent" /\ s[4] # "absent"}
    IN  {FlatDict(s) : s \in shapeSets}
        \cup {[k \in {"extracted"} |-> FlatDict(s)] : s \in shapeSets}

NoResult == [passed |-> FALSE, errors |-> <<>>, warnings |-> <<>>]

GateIdle ==
    /\ extracted_data = << >>
    /\ comparisons = <<>>
    /\ consistency_issues = <<>>
    /\ filing_safety = NoResult

NoSnapshot == PaystubSnapshot(0, None, EmptyPair, EmptyPair, EmptyPair, EmptyPair, EmptyPair, << >>)
NoW2 == [box_1_wages_tips_other_comp |-> None, box_2_federal_income_tax_withheld |-> None,
         box_4_social_security_tax_withheld |-> None, box_6_medicare_tax_withheld |-> None,
         state_boxes |-> <<>>]

W2Idle == snapshot = NoSnapshot /\ w2_data = NoW2

CorrIdle == corrections = <<>> /\ effective = << >> /\ correction_trace = <<>>

NoRun == [snapshots |-> <<>>, issues |-> <<>>, notes |-> << >>]
NoDedup == [canonical |-> <<>>, issues |-> <<>>]
NoPromotion == [snapshots |-> <<>>, issues |-> <<>>]

SeqIdle ==
    /\ snapshots = <<>>
    /\ verified = NoRun
    /\ reverified = NoRun
    /\ promoted = NoPromotion
    /\ canonical = NoDedup
    /\ pay_date_overrides = NoOverrides

NoLoad == [snapshots |-> <<>>, w2_data |-> NoneW2]
Pending == [kind |-> "pending", code |-> "", report |-> <<>>]

\* no object exists and nothing was returned
NoObject == <<"none", 0, "none">>
HeapIdle ==
    /\ heap = << >>
    /\ ret = NoObject

\* no line is being tokenized
NoLineRead == [keywords |-> {}, tokens |-> <<>>]
LineIdle ==
    /\ money_line = NoLineRead
    /\ money_values = <<>>
    /\ anomalies = <<>>
    /\ amount_pair = EmptyPair

HouseIdle ==
    /\ household_config = [filers |-> <<>>]
    /\ household_corrections = << >>
    /\ household_overrides = << >>
    /\ filer_index = 0
    /\ seen_paths = << >>
    /\ loaded = NoLoad
    /\ results = <<>>
    /\ total_gross = 0
    /\ total_fed = 0
    /\ all_ready = TRUE
    /\ outcome = Pending

GateInit ==
    /\ W2Idle
    /\ CorrIdle
    /\ SeqIdle
    /\ HouseIdle
    /\ HeapIdle
    /\ LineIdle
    /\ pc = "gate_call"
    /\ tolerance \in GateTolerances
    /\ extracted_data \in GateExtracted
    /\ comparisons \in SeqsUpTo(GateRows, MaxRows)
    /\ consistency_issues \in SeqsUpTo(GateIssues, MaxIssues)
    /\ filing_safety = NoResult

ValidateFilingSafety ==
    /\ pc = "gate_call"
    /\ filing_safety' = validate_filing_safety(extracted_data, comparisons, consistency_issues, tolerance)
    /\ pc' = "gate_done"
    /\ UNCHANGED <<tolerance, heapVars, lineVars, extracted_data, comparisons, consistency_issues, w2Vars, corrVars,
                   seqVars, houseVars>>

GateNext == ValidateFilingSafety

GateSpec == GateInit /\ [][GateNext]_vars

----------------------------------------------------------------------------
(* C1 *)

RequiredFieldNull ==
    \E i \in 1..4 : FieldYtd(ExtractedValues(extracted_data), required_fields[i]) = None

MismatchBeyondTolerance ==
    \E i \in 1..Len(comparisons) :
        /\ comparisons[i].status = "mismatch"
        /\ comparisons[i].difference # None
        /\ Abs(comparisons[i].difference) > tolerance

MissingValueRow ==
    \E i \in 1..Len(comparisons) :
        comparisons[i].status \in {"missing_paystub_value", "missing_w2_value"}

CriticalIssue ==
    \E i \in 1..Len(consistency_issues) : consistency_issues[i].severity = "critical"

\* C1: the gate passes iff no required YTD is null, no mismatch row is beyond
\* tolerance, no row has a missing-value status and no issue is critical.
C1_GatePassedIff ==
    pc = "gate_done" =>
        (filing_safety.passed <=>
            ~(RequiredFieldNull \/ MismatchBeyondTolerance \/ MissingValueRow \/ CriticalIssue))

\* a passing gate that saw an in-tolerance mismatch and a review_needed row
C1_Witness ==
    /\ pc = "gate_done"
    /\ filing_safety.passed
    /\ \E i \in 1..Len(comparisons) :
          comparisons[i].status = "mismatch" /\ comparisons[i].difference # None
    /\ \E i \in 1..Len(comparisons) : comparisons[i].status = "review_needed"
    /\ \E i \in 1..Len(consistency_issues) : consistency_issues[i].severity = "warning"

----------------------------------------------------------------------------
(* Inputs of the W-2 comparison *)

MaxBoxes == 2

W2Amount == 10000
W2Tolerances == {1, 2}

\* (paystub ytd, W-2 value) of one federal-level row
RowCases == {None, W2Amount} \X {None, W2Amount, W2Amount + 2}
FewRowCases == {<<W2Amount, W2Amount + 2>>, <<None, None>>}

YtdPair(ytd) == AmountPair(None, ytd, "evidence")

W2SnapshotStates ==
    {st \in UNION {[D -> {YtdPair(None), YtdPair(W2Amount)}] : D \in SUBSET {"AZ", "VA"}} :
        "VA" \in DOMAIN st => st["VA"].ytd # None}

W2StateBoxes ==
    {[state |-> "AZ", box_17_state_income_tax |-> W2Amount],
     [state |-> "AZ", box_17_state_income_tax |-> W2Amount + 2],
     [state |-> "va", box_17_state_income_tax |-> W2Amount],
     [state |-> "va", box_17_state_income_tax |-> None],
     [state |-> "", box_17_state_income_tax |-> W2Amount]}

W2Init ==
    /\ GateIdle
    /\ CorrIdle
    /\ SeqIdle
    /\ HouseIdle
    /\ HeapIdle
    /\ LineIdle
    /\ pc = "w2_call"
    /\ tolerance \in W2Tolerances
    /\ \E fed \in RowCases, gross \in RowCases, ss \in FewRowCases, med \in FewRowCases,
          st \in W2SnapshotStates, boxes \in SeqsUpTo(W2StateBoxes, MaxBoxes) :
          /\ snapshot = PaystubSnapshot(1, 1, YtdPair(gross[1]), YtdPair(fed[1]), YtdPair(ss[1]),
                                        YtdPair(med[1]), EmptyPair, st)
          /\ w2_data = [box_1_wages_tips_other_comp |-> gross[2],
                        box_2_federal_income_tax_withheld |-> fed[2],
                        box_4_social_security_tax_withheld |-> ss[2],
                        box_6_medicare_tax_withheld |-> med[2],
                        state_boxes |-> boxes]

CompareSnapshotToW2 ==
    /\ pc = "w2_call"
    /\ comparisons' = compare_snapshot_to_w2(snapshot, w2_data, tolerance)
    /\ pc' = "w2_done"
    /\ UNCHANGED <<tolerance, heapVars, lineVars, extracted_data, consistency_issues, filing_safety, w2Vars, corrVars,
                   seqVars, houseVars>>

W2Next == CompareSnapshotToW2

W2Spec == W2Init /\ [][W2Next]_vars

----------------------------------------------------------------------------
(* C8, C9 *)

InformationalField == "gross_pay_vs_box1_informational"

\* the values a row is about, read from the inputs
RowInputs(i) ==
    CASE i = 1 -> <<snapshot.federal_income_tax.ytd, w2_data.box_2_federal_income_tax_withheld>>
      [] i = 2 -> <<snapshot.social_security_tax.ytd, w2_data.box_4_social_security_tax_withheld>>
      [] i = 3 -> <<snapshot.medicare_tax.ytd, w2_data.box_6_medicare_tax_withheld>>
      [] i = 4 -> <<snapshot.gross_pay.ytd, w2_data.box_1_wages_tips_other_comp>>
      [] OTHER ->
            LET code == CHOOSE c \in {"AZ", "VA"} :
                            comparisons[i].field = c \o "_state_income_tax_withheld"
                boxes == {j \in 1..Len(w2_data.state_boxes) :
                            w2_data.state_boxes[j].state \in {code, IF code = "AZ" THEN "az" ELSE "va"}}
            IN  << IF code \in DOMAIN snapshot.state_income_tax
                   THEN snapshot.state_income_tax[code].ytd ELSE None,
                   IF boxes = {} THEN None
                   ELSE w2_data.state_boxes[CHOOSE j \in boxes : \A k \in boxes : k <= j]
                            .box_17_state_income_tax >>

\* C8: with both values present a row is match iff |paystub - w2| <= tolerance;
\* beyond tolerance it is mismatch, except the gross-pay row, which is
\* review_needed and never mismatch.
C8_StatusByTolerance ==
    pc = "w2_done" =>
        \A i \in 1..Len(comparisons) :
            LET ps == RowInputs(i)[1]
                w2 == RowInputs(i)[2]
                row == comparisons[i]
            IN  /\ (row.field = InformationalField) => row.status # "mismatch"
                /\ (ps # None /\ w2 # None) =>
                      /\ (row.status = "match") <=> (Abs(ps - w2) <= tolerance)
                      /\ (Abs(ps - w2) > tolerance) =>
                            row.status = IF row.field = InformationalField
                                         THEN "review_needed" ELSE "mismatch"

C8_Witness ==
    /\ pc = "w2_done"
    /\ comparisons[1].status = "mismatch"
    /\ comparisons[4].status = "review_needed"
    /\ \E i \in 5..Len(comparisons) : comparisons[i].status = "mismatch"
    /\ \E i \in 5..Len(comparisons) : comparisons[i].status = "match"

StateRowsFor(code) ==
    {i \in 5..Len(comparisons) : comparisons[i].field = code \o "_state_income_tax_withheld"}

W2StateCodes ==
    {IF w2_data.state_boxes[j].state = "az" THEN "AZ"
     ELSE IF w2_data.state_boxes[j].state = "va" THEN "VA"
     ELSE w2_data.state_boxes[j].state :
        j \in {k \in 1..Len(w2_data.state_boxes) : w2_data.state_boxes[k].state # ""}}

\* C9: one state row per state code of the snapshot or of the W-2 and no other
\* state row; a row with a missing side has the missing status of a side that
\* is missing (the paystub side first) and a null difference.
C9_MissingSides ==
    pc = "w2_done" =>
        /\ Len(comparisons) = 4 + Cardinality(DOMAIN snapshot.state_income_tax \cup W2StateCodes)
        /\ \A code \in DOMAIN snapshot.state_income_tax \cup W2StateCodes :
              Cardinality(StateRowsFor(code)) = 1
        /\ \A i \in 1..Len(comparisons) :
              LET ps == RowInputs(i)[1]
                  w2 == RowInputs(i)[2]
                  row == comparisons[i]
              IN  /\ (ps = None) => row.status = "missing_paystub_value" /\ row.difference = None
                  /\ (ps # None /\ w2 = None) =>
                        row.status = "missing_w2_value" /\ row.difference = None
                  /\ (ps # None /\ w2 # None) =>
                        row.difference = ps - w2 /\ row.status \in {"match", "mismatch", "review_needed"}

C9_Witness ==
    /\ pc = "w2_done"
    /\ comparisons[1].status = "missing_w2_value"
    /\ \E i \in 5..Len(comparisons) :
          comparisons[i].status = "missing_paystub_value" /\ comparisons[i].w2 # None
    /\ \E i \in 5..Len(comparisons) : comparisons[i].status = "missing_w2_value"
    /\ "AZ" \notin DOMAIN snapshot.state_income_tax /\ StateRowsFor("AZ") # {}

----------------------------------------------------------------------------
(* Inputs of the correction merge *)

MaxCorrections == 2

CorrectionKeys ==
    {"box1", "box2", "box3", "state_income_tax", "state_income_tax_VA", "state_income_tax_AZ",
     "gross_pay", "tax_year", "unknown_key"}

CorrectionEntries ==
    [key : CorrectionKeys, is_dict : {TRUE}, value : {512345}, audit_reason : {"OCR Error"},
     timestamp : {Absent}]
    \cup [key : {"box1"}, is_dict : {TRUE}, value : {None, 700000}, audit_reason : {Absent},
          timestamp : {"t1"}]
    \cup [key : {"box1", "box2"}, is_dict : {FALSE}, value : {None}, audit_reason : {Absent},
          timestamp : {Absent}]

\* corrections.items(): ordered, the keys pairwise distinct
CorrectionMaps ==
    {c \in SeqsUpTo(CorrectionEntries, MaxCorrections) :
        \A i, j \in 1..Len(c) : i # j => c[i].key # c[j].key}

CorrSnapshots ==
    {PaystubSnapshot(1, 1, AmountPair(505000, g, "Gross Pay 5,050.00 93,450.05"),
                     AmountPair(65880, 1227847, "evidence"), AmountPair(29672, 543690, "evidence"),
                     AmountPair(6940, None, "evidence"), AmountPair(0, 0, "evidence"), st) :
        g \in {None, 9345005},
        st \in {<< >>, [c \in {"VA"} |-> AmountPair(12721, 319341, "evidence")],
                [c \in {"AZ", "VA"} |-> AmountPair(8461, IF c = "AZ" THEN None ELSE 319341, "evidence")]}}

CorrTrees ==
    {extracted_summary(sn) : sn \in CorrSnapshots}
    \cup {Put(extracted_summary(sn), "tax_year", 2025) : sn \in CorrSnapshots}

CorrInit ==
    /\ W2Idle
    /\ SeqIdle
    /\ HouseIdle
    /\ HeapIdle
    /\ LineIdle
    /\ pc = "merge_call"
    /\ tolerance = 1
    /\ extracted_data \in CorrTrees
    /\ corrections \in CorrectionMaps
    /\ effective = << >>
    /\ correction_trace = <<>>
    /\ comparisons = <<>>
    /\ consistency_issues = <<>>
    /\ filing_safety = NoResult

MergeCorrections ==
    /\ pc = "merge_call"
    /\ LET merged == merge_corrections(extracted_data, corrections)
       IN  effective' = merged.effective /\ correction_trace' = merged.trace
    /\ pc' = "merge_done"
    /\ UNCHANGED <<tolerance, heapVars, lineVars, gateVars, w2Vars, corrections, seqVars, houseVars>>

CorrNext == MergeCorrections

CorrSpec == CorrInit /\ [][CorrNext]_vars

----------------------------------------------------------------------------
(* C10 *)

PairFields == {"gross_pay", "federal_income_tax", "social_security_tax", "medicare_tax", "k401_contrib"}

\* the corrections that are dicts, and the positions of those writing gross_pay
GrossWriters ==
    {i \in 1..Len(corrections) :
        corrections[i].is_dict /\ corrections[i].key \in {"box1", "gross_pay"}}
Box1Position ==
    CHOOSE i \in 1..Len(corrections) : corrections[i].is_dict /\ corrections[i].key = "box1"
HasBox1 ==
    \E i \in 1..Len(corrections) : corrections[i].is_dict /\ corrections[i].key = "box1"

\* the keys of a correction map that reach a given field of the tree
Targets(field) ==
    {i \in 1..Len(corrections) :
        /\ corrections[i].is_dict
        /\ \/ corrections[i].key = field
           \/ (field = "federal_income_tax" /\ corrections[i].key = "box2")
           \/ (field = "AZ" /\ corrections[i].key = "state_income_tax_AZ")
           \/ (field = "VA" /\ corrections[i].key = "state_income_tax_VA")}

SameAmounts(a, b) == a["this_period"] = b["this_period"] /\ a["ytd"] = b["ytd"]

\* C10: a box1 correction sets gross_pay.ytd to the corrected value and leaves
\* gross_pay.this_period and both values of every field that no other
\* correction of the map addresses as extracted; the trace has the field, the
\* original value, the new value and the reason.
C10_Box1OnlyGrossYtd ==
    (pc = "merge_done" /\ HasBox1) =>
        LET c == corrections[Box1Position]
            entries == {k \in 1..Len(correction_trace) :
                            correction_trace[k].corrected_field = "gross_pay"}
        IN  /\ (\A i \in GrossWriters : i <= Box1Position) =>
                    effective["gross_pay"]["ytd"] = c.value
            /\ effective["gross_pay"]["this_period"] = extracted_data["gross_pay"]["this_period"]
            /\ effective["gross_pay"]["evidence"] = extracted_data["gross_pay"]["evidence"]
            /\ \A f \in PairFields \ {"gross_pay"} :
                    Targets(f) = {} => SameAmounts(effective[f], extracted_data[f])
            /\ \A st \in DOMAIN extracted_data["state_income_tax"] :
                    Targets(st) = {} =>
                        /\ st \in DOMAIN effective["state_income_tax"]
                        /\ SameAmounts(effective["state_income_tax"][st],
                                       extracted_data["state_income_tax"][st])
            /\ (Len(corrections) = 1) =>
                    /\ DOMAIN effective = DOMAIN extracted_data
                    /\ \A f \in DOMAIN extracted_data \ {"gross_pay"} : effective[f] = extracted_data[f]
            /\ Cardinality(entries) = Cardinality(GrossWriters)
            /\ \E k \in entries :
                    /\ correction_trace[k].corrected_value = c.value
                    /\ correction_trace[k].reason = ReasonOf(c)
                    /\ correction_trace[k].timestamp = TimestampOf(c)
                    /\ (GrossWriters = {Box1Position}) =>
                            correction_trace[k].original_value = extracted_data["gross_pay"]["ytd"]

C10_Witness ==
    /\ pc = "merge_done"
    /\ HasBox1
    /\ Len(corrections) = 1
    /\ extracted_data["gross_pay"]["ytd"] # None
    /\ effective["gross_pay"]["ytd"] # extracted_data["gross_pay"]["ytd"]
    /\ DOMAIN extracted_data["state_income_tax"] = {"AZ", "VA"}
    /\ Len(correction_trace) = 1

----------------------------------------------------------------------------
(* C11 *)

\* the positions of the {value, reason} corrections keyed by the bare string
BareStatePositions ==
    {i \in 1..Len(corrections) :
        corrections[i].is_dict /\ corrections[i].key = "state_income_tax"}

\* the correction map without its bare state_income_tax entry
WithoutBareState ==
    SelectSeq(corrections, LAMBDA c : ~(c.is_dict /\ c.key = "state_income_tax"))

\* the trace entries written for the bare key
BareStateEntries ==
    {k \in 1..Len(correction_trace) : correction_trace[k].corrected_field = "state_income_tax"}

\* C11: a correction keyed by the bare string state_income_tax does not stop
\* the merge, changes no value of the effective tree (the tree is the one the
\* other corrections of the map produce, and the extracted tree when there is
\* no other correction), and appends exactly one trace entry, whose reason is
\* the warning and whose original and corrected values are null.
C11_BareStateTaxSkipped ==
    (pc = "merge_done" /\ BareStatePositions # {}) =>
        /\ Cardinality(BareStateEntries) = 1
        /\ Len(correction_trace) = Len(merge_corrections(extracted_data, WithoutBareState).trace) + 1
        /\ \A k \in BareStateEntries :
                /\ correction_trace[k].reason = WarningReason
                /\ correction_trace[k].original_value = None
                /\ correction_trace[k].corrected_value = None
                /\ correction_trace[k].timestamp = TimestampOf(corrections[CHOOSE i \in BareStatePositions : TRUE])
        /\ effective = merge_corrections(extracted_data, WithoutBareState).effective
        /\ (Len(corrections) = 1) => effective = extracted_data
        /\ (\A i \in 1..Len(corrections) :
                corrections[i].key \notin {"state_income_tax_VA", "state_income_tax_AZ"})
                => effective["state_income_tax"] = extracted_data["state_income_tax"]

C11_Witness ==
    /\ pc = "merge_done"
    /\ BareStatePositions # {}
    /\ Len(corrections) = 1
    /\ DOMAIN extracted_data["state_income_tax"] = {"VA"}
    /\ extracted_data["state_income_tax"]["VA"]["ytd"] = 319341
    /\ effective = extracted_data
    /\ Len(correction_trace) = 1

----------------------------------------------------------------------------
(* Inputs of state YTD repair *)

MaxSnapshots == 3

RepairTolerances == {1, 50}

\* the AZ entry of a snapshot: none, or (this_period, ytd, evidence)
RepairPairs ==
    {AmountPair(None, None, "evidence"),
     AmountPair(8461, 8461, "evidence"),
     AmountPair(8461, 16922, "evidence"),
     AmountPair(8461, 422442, "evidence"),
     AmountPair(16927, 422442, "evidence"),
     AmountPair(49826, 572233, "evidence"),
     AmountPair(49826, 572233, "evidence -"),
     AmountPair(None, 49826, "evidence"),
     AmountPair(None, 49926, "evidence"),
     AmountPair(None, 8461, "evidence"),
     AmountPair(None, 58337, "evidence")}

\* the choice "no AZ entry in this snapshot"
NoEntry == AmountPair(None, None, "no entry")

\* the state map of snapshot i: the chosen AZ entry, and a regular VA entry
RepairStateMap(az, with_va, i) ==
    [c \in (IF az = NoEntry THEN {} ELSE {"AZ"}) \cup (IF with_va THEN {"VA"} ELSE {}) |->
        IF c = "AZ" THEN az ELSE AmountPair(12721, 12721 * i, "evidence")]

\* pay dates in chronological order: the first is day 1 and each later one
\* is the same day as the one before or the next day
DateOf(same_day, i) == 1 + Cardinality({j \in 2..i : ~same_day[j]})

PlainPair(this_period, ytd) == AmountPair(this_period, ytd, "evidence")

\* snapshot i of a filer, in file-name order
RepairSnapshot(i, pay_date, states) ==
    PaystubSnapshot(i, pay_date, PlainPair(505000, 505000 * i), PlainPair(65880, 65880 * i),
                    PlainPair(29672, 29672 * i), PlainPair(6940, 6940 * i), PlainPair(0, 0), states)

RepairInit ==
    /\ GateIdle
    /\ W2Idle
    /\ CorrIdle
    /\ HouseIdle
    /\ HeapIdle
    /\ LineIdle
    /\ pc = "repair_call"
    /\ tolerance \in RepairTolerances
    /\ \E n \in 0..MaxSnapshots :
          \E az \in [1..n -> RepairPairs \cup {NoEntry}],
             same_day \in {f \in [1..n -> BOOLEAN] : n = 0 \/ ~f[1]},
             with_va \in BOOLEAN :
             snapshots = [i \in 1..n |->
                            RepairSnapshot(i, DateOf(same_day, i), RepairStateMap(az[i], with_va, i))]
    /\ verified = NoRun
    /\ reverified = NoRun
    /\ promoted = NoPromotion
    /\ canonical = NoDedup
    /\ pay_date_overrides = NoOverrides

\* verify_and_repair_state_ytd_anomalies(snapshots, tolerance)
Repair ==
    /\ pc = "repair_call"
    /\ verified' = verify_and_repair_state_ytd_anomalies(snapshots, tolerance)
    /\ pc' = "repaired"
    /\ UNCHANGED <<tolerance, heapVars, lineVars, gateVars, w2Vars, corrVars, snapshots, promoted, reverified, canonical,
                   pay_date_overrides, houseVars>>

\* the same call on the snapshots it returned
RepairAgain ==
    /\ pc = "repaired"
    /\ reverified' = verify_and_repair_state_ytd_anomalies(verified.snapshots, tolerance)
    /\ pc' = "repaired_again"
    /\ UNCHANGED <<tolerance, heapVars, lineVars, gateVars, w2Vars, corrVars, snapshots, promoted, verified, canonical,
                   pay_date_overrides, houseVars>>

RepairNext == Repair \/ RepairAgain

RepairSpec == RepairInit /\ [][RepairNext]_vars

----------------------------------------------------------------------------
(* C5, C6 *)

\* C5: repairing the output of a repair returns it unchanged and emits no
\* issue and no note.
C5_RepairIdempotent ==
    pc = "repaired_again" =>
        /\ reverified.snapshots = verified.snapshots
        /\ reverified.issues = <<>>
        /\ reverified.notes = << >>

\* the entries whose YTD the repair changed
RepairedEntries ==
    {e \in (1..Len(snapshots)) \X {"AZ", "VA"} :
        /\ e[2] \in DOMAIN snapshots[e[1]].state_income_tax
        /\ verified.snapshots[e[1]].state_income_tax[e[2]].ytd
                # snapshots[e[1]].state_income_tax[e[2]].ytd}

\* the snapshots of the corrected sequence that carry a YTD of the state on
\* another pay date than snapshot i
OtherDates(i, state) ==
    {k \in 1..Len(verified.snapshots) :
        /\ state \in DOMAIN verified.snapshots[k].state_income_tax
        /\ verified.snapshots[k].state_income_tax[state].ytd # None
        /\ verified.snapshots[k].pay_date # verified.snapshots[i].pay_date}

YtdAt(k, state) == verified.snapshots[k].state_income_tax[state].ytd

\* C6: a corrected YTD is not less than the state's YTD on the nearest earlier
\* distinct pay date and not greater than the one on the nearest later
\* distinct pay date.
C6_RepairMonotonic ==
    pc = "repaired" =>
        \A e \in RepairedEntries :
            LET i == e[1]
                state == e[2]
                earlier == {k \in OtherDates(i, state) : k < i}
                later == {k \in OtherDates(i, state) : k > i}
            IN  /\ earlier # {} =>
                    YtdAt(CHOOSE k \in earlier : \A o \in earlier : o <= k, state) <= YtdAt(i, state)
                /\ later # {} =>
                    YtdAt(i, state) <= YtdAt(CHOOSE k \in later : \A o \in later : o >= k, state)

----------------------------------------------------------------------------
(* Inputs of deduplication *)

\* what a snapshot carries: (gross ytd, federal ytd, medicare ytd)
QualityProfiles ==
    {<<505000, 65880, 6940>>,      \* complete
     <<505000, 65880, None>>,      \* medicare missing
     <<1010000, None, 6940>>}      \* federal missing, higher gross

DedupDates == {None, 1, 2}

\* file names in list order: ascending or descending, plain or dated
FileOf(i, n, descending, dated_names) ==
    (IF dated_names THEN DatedFileBase ELSE 0) + (IF descending THEN n + 1 - i ELSE i)

DedupSnapshot(file, pay_date, profile) ==
    PaystubSnapshot(file, pay_date, PlainPair(None, profile[1]), PlainPair(None, profile[2]),
                    PlainPair(None, 31310), PlainPair(None, profile[3]), EmptyPair,
                    [c \in {"AZ"} |-> PlainPair(None, 8461)])

\* no override, or one for the first snapshot of the list
DedupOverrides(snaps) ==
    {NoOverrides} \cup
    (IF Len(snaps) = 0 THEN {}
     ELSE {[f \in {snaps[1].file} |-> d] : d \in {2, BadDate}})

DedupInit ==
    /\ GateIdle
    /\ W2Idle
    /\ CorrIdle
    /\ HouseIdle
    /\ HeapIdle
    /\ LineIdle
    /\ pc = "dedup_call"
    /\ tolerance = 1
    /\ \E n \in 0..MaxSnapshots :
          \E profile \in [1..n -> QualityProfiles], pay_date \in [1..n -> DedupDates],
             descending \in BOOLEAN, dated_names \in BOOLEAN :
             snapshots = [i \in 1..n |->
                            DedupSnapshot(FileOf(i, n, descending, dated_names),
                                          pay_date[i], profile[i])]
    /\ pay_date_overrides \in DedupOverrides(snapshots)
    /\ verified = NoRun
    /\ reverified = NoRun
    /\ promoted = NoPromotion
    /\ canonical = NoDedup

\* deduplicate_by_pay_date(snapshots, pay_date_overrides)
Deduplicate ==
    /\ pc = "dedup_call"
    /\ canonical' = deduplicate_by_pay_date(snapshots, pay_date_overrides)
    /\ pc' = "deduped"
    /\ UNCHANGED <<tolerance, heapVars, lineVars, gateVars, w2Vars, corrVars, snapshots, promoted, verified, reverified,
                   pay_date_overrides, houseVars>>

DedupNext == Deduplicate

DedupSpec == DedupInit /\ [][DedupNext]_vars

----------------------------------------------------------------------------
(* C7 *)

\* the pay date a snapshot is grouped under: its own, or the valid override
\* of its file
GroupDate(s) ==
    IF s.file \in DOMAIN pay_date_overrides /\ pay_date_overrides[s.file] # BadDate
    THEN pay_date_overrides[s.file] ELSE s.pay_date

\* the input snapshots under the pay dates they are grouped by
Dated == {[snapshots[i] EXCEPT !.pay_date = GroupDate(snapshots[i])] : i \in 1..Len(snapshots)}

Completeness(s) ==
    Cardinality({f \in {"gross_pay", "federal_income_tax", "social_security_tax", "medicare_tax"} :
                    s[f].ytd # None}) + 1

StateTotal(s) == SumOver([c \in DOMAIN s.state_income_tax |->
                            IF s.state_income_tax[c].ytd = None THEN 0
                            ELSE s.state_income_tax[c].ytd], DOMAIN s.state_income_tax)

Amount(x) == IF x = None THEN 0 ELSE x

\* a is before b in the order of (completeness, gross, federal, state, file)
Outranked(a, b) ==
    LET ta == <<Completeness(a), Amount(a.gross_pay.ytd), Amount(a.federal_income_tax.ytd),
                StateTotal(a), a.file>>
        tb == <<Completeness(b), Amount(b.gross_pay.ytd), Amount(b.federal_income_tax.ytd),
                StateTotal(b), b.file>>
    IN  \/ ta[1] < tb[1]
        \/ ta[1] = tb[1] /\ ta[2] < tb[2]
        \/ ta[1] = tb[1] /\ ta[2] = tb[2] /\ ta[3] < tb[3]
        \/ ta[1] = tb[1] /\ ta[2] = tb[2] /\ ta[3] = tb[3] /\ ta[4] < tb[4]
        \/ ta[1] = tb[1] /\ ta[2] = tb[2] /\ ta[3] = tb[3] /\ ta[4] = tb[4] /\ ta[5] < tb[5]

Positions(s) == {k \in 1..Len(canonical.canonical) : canonical.canonical[k] = s}

\* C7: the result holds exactly one snapshot per distinct non-null pay date,
\* the member of the date's group with the greatest quality tuple, and every
\* snapshot without a pay date, unchanged.
C7_DedupCanonical ==
    pc = "deduped" =>
        LET out == canonical.canonical
            dates == {s.pay_date : s \in Dated} \ {None}
            undated == {s \in Dated : s.pay_date = None}
        IN  /\ \A d \in dates :
                LET group == {s \in Dated : s.pay_date = d}
                    kept == {k \in 1..Len(out) : out[k].pay_date = d}
                IN  /\ Cardinality(kept) = 1
                    /\ \A k \in kept :
                        /\ out[k] \in group
                        /\ \A s \in group \ {out[k]} : Outranked(s, out[k])
            /\ \A s \in undated : Cardinality(Positions(s)) = 1
            /\ Len(out) = Cardinality(dates) + Cardinality(undated)

\* a group of two where the less complete snapshot has the higher gross and
\* the later file name, next to a snapshot without a pay date
C7_Witness ==
    /\ pc = "deduped"
    /\ \E a \in Dated, b \in Dated :
        /\ a.pay_date # None
        /\ a.pay_date = b.pay_date
        /\ Completeness(a) < Completeness(b)
        /\ a.gross_pay.ytd > b.gross_pay.ytd
        /\ a.file > b.file
        /\ Positions(b) # {}
    /\ \E s \in Dated : s.pay_date = None /\ Positions(s) # {}
    /\ \E i \in 1..Len(canonical.issues) : canonical.issues[i].code = "duplicate_pay_date"

----------------------------------------------------------------------------
(* Inputs of promote_ytd_candidates *)

\* gross pay of the period on the last statement: none, a regular one, absent
PromotionGross == {0, 300000, None}

\* a tax pair of an earlier statement
PriorTaxPairs ==
    {PlainPair(45000, 1400000), PlainPair(45000, 120000), PlainPair(80000, None), EmptyPair}

\* the federal pair of the last statement: a lone amount above the first
\* and between the two prior YTDs above, a regular pair, a lone 0.00
LastTaxPairs ==
    {PlainPair(1471686, None), PlainPair(80000, None), PlainPair(45000, 1445000),
     PlainPair(0, None)}

\* the AZ entry of the last statement
LastStatePairs == {PlainPair(49826, None), PlainPair(5000, 50000), NoEntry}

\* the social security pair of the last statement
LastSocialPairs == {PlainPair(646843, None), PlainPair(12000, 652000)}

\* the gross pay YTD of the last statement: read, or not found
PromotionGrossYtd == {10000000, None}

PromotionSnapshot(i, gross, fed, ss, az) ==
    PaystubSnapshot(i, i, gross, fed, ss,
                    IF i = 1 THEN PlainPair(3000, 150000) ELSE PlainPair(151278, None),
                    PlainPair(0, 0),
                    [c \in (IF az = NoEntry THEN {} ELSE {"AZ"}) |-> az])

PromoteInit ==
    /\ GateIdle
    /\ W2Idle
    /\ CorrIdle
    /\ HouseIdle
    /\ HeapIdle
    /\ LineIdle
    /\ pc = "promote_call"
    /\ tolerance = 1
    /\ \E n \in 0..MaxSnapshots :
          \E fed \in [1..(n - 1) -> PriorTaxPairs], with_az \in [1..(n - 1) -> BOOLEAN],
             gross \in PromotionGross, gross_ytd \in PromotionGrossYtd, last_fed \in LastTaxPairs, last_ss \in LastSocialPairs,
             last_az \in LastStatePairs :
             /\ n = 0 => (gross = 0 /\ gross_ytd = None /\ last_fed = PlainPair(0, None)
                            /\ last_ss = PlainPair(12000, 652000) /\ last_az = NoEntry)
             /\ snapshots =
                    [i \in 1..n |->
                        IF i < n
                        THEN PromotionSnapshot(i, PlainPair(300000, 300000 * i), fed[i], PlainPair(12000, 640000),
                                               IF with_az[i] THEN PlainPair(5000, 45000) ELSE NoEntry)
                        ELSE PromotionSnapshot(i, PlainPair(gross, gross_ytd), last_fed, last_ss,
                                               last_az)]
    /\ verified = NoRun
    /\ reverified = NoRun
    /\ promoted = NoPromotion
    /\ canonical = NoDedup
    /\ pay_date_overrides = NoOverrides

\* promote_ytd_candidates(snapshots, tolerance)
PromoteYtdCandidates ==
    /\ pc = "promote_call"
    /\ promoted' = promote_ytd_candidates(snapshots)
    /\ pc' = "promoted"
    /\ UNCHANGED <<tolerance, heapVars, lineVars, gateVars, w2Vars, corrVars, snapshots, verified,
                   reverified, canonical, pay_date_overrides, houseVars>>

\* run_consistency_checks(promoted, tolerance) on the promoted snapshots
CheckPromoted ==
    /\ pc = "promoted"
    /\ consistency_issues' = run_consistency_checks(promoted.snapshots, tolerance, NoOverrides)
    /\ pc' = "promoted_checked"
    /\ UNCHANGED <<tolerance, heapVars, lineVars, extracted_data, comparisons, filing_safety,
                   w2Vars, corrVars, seqVars, houseVars>>

PromoteNext == PromoteYtdCandidates \/ CheckPromoted

PromoteSpec == PromoteInit /\ [][PromoteNext]_vars

----------------------------------------------------------------------------
(* C20 *)

PromotionIssues(field, code) ==
    SelectSeq(promoted.issues, LAMBDA issue : issue.code = code /\ issue.subject = field)

\* C20: when the last snapshot has a gross pay of 0.00 for the period, a
\* field of it (federal, social security, medicare, a state) with no ytd and
\* a positive this_period becomes (this_period null, ytd the amount) with a
\* zero_period_ytd_promoted issue when the amount is not less than the
\* nearest prior ytd of the field, and otherwise stays as extracted with a
\* zero_period_ytd_promotion_rejected issue.
C20_ZeroPeriodPromotion ==
    (pc = "promoted" /\ Len(snapshots) > 0) =>
        LET n == Len(snapshots)
            last == snapshots[n]
            out == promoted.snapshots[n]
        IN  last.gross_pay.this_period = 0 =>
                \A field \in {"federal_income_tax", "social_security_tax", "medicare_tax"}
                             \cup DOMAIN last.state_income_tax :
                    LET pair == FieldPair(last, field)
                        earlier == {j \in 1..(n - 1) : FieldPair(snapshots[j], field).ytd # None}
                    IN  (pair.ytd = None /\ pair.this_period # None /\ pair.this_period > 0
                            /\ earlier # {}) =>
                            LET nearest == CHOOSE j \in earlier : \A o \in earlier : o <= j
                                prior == FieldPair(snapshots[nearest], field).ytd
                            IN  IF pair.this_period >= prior
                                THEN /\ FieldPair(out, field).ytd = pair.this_period
                                     /\ FieldPair(out, field).this_period = None
                                     /\ Len(PromotionIssues(field, "zero_period_ytd_promoted")) = 1
                                     /\ Len(PromotionIssues(field, "zero_period_ytd_promotion_rejected")) = 0
                                ELSE /\ FieldPair(out, field) = pair
                                     /\ Len(PromotionIssues(field, "zero_period_ytd_promotion_rejected")) = 1
                                     /\ Len(PromotionIssues(field, "zero_period_ytd_promoted")) = 0

\* a year-end statement whose lone federal amount 800.00 is below the prior
\* YTD 14000.00 and whose lone AZ amount 498.26 is above the prior 450.00
C20_Witness ==
    /\ pc = "promoted"
    /\ Len(snapshots) = 2
    /\ snapshots[2].gross_pay.this_period = 0
    /\ snapshots[1].federal_income_tax.ytd = 1400000
    /\ snapshots[2].federal_income_tax = PlainPair(80000, None)
    /\ promoted.snapshots[2].federal_income_tax = PlainPair(80000, None)
    /\ Len(PromotionIssues("federal_income_tax", "zero_period_ytd_promotion_rejected")) = 1
    /\ "AZ" \in DOMAIN snapshots[1].state_income_tax
    /\ "AZ" \in DOMAIN snapshots[2].state_income_tax
    /\ snapshots[2].state_income_tax["AZ"] = PlainPair(49826, None)
    /\ promoted.snapshots[2].state_income_tax["AZ"] = PlainPair(None, 49826)
    /\ Len(PromotionIssues("AZ", "zero_period_ytd_promoted")) = 1

----------------------------------------------------------------------------
(* Inputs of run_consistency_checks *)

\* gross, federal, social security and medicare YTD of a snapshot: complete,
\* or with one of the four missing
CheckProfiles ==
    {<<505000, 65880, 31310, 6940>>, <<None, 65880, 31310, 6940>>,
     <<505000, None, 31310, 6940>>, <<505000, 65880, None, 6940>>,
     <<505000, 65880, 31310, None>>}

CheckSnapshot(file, pay_date, profile) ==
    PaystubSnapshot(file, pay_date, PlainPair(None, profile[1]), PlainPair(None, profile[2]),
                    PlainPair(None, profile[3]), PlainPair(None, profile[4]), EmptyPair,
                    [c \in {"AZ"} |-> PlainPair(None, 8461)])

\* no override, or one that moves the first snapshot of the list to day 2
CheckOverrides(snaps) ==
    {NoOverrides} \cup (IF Len(snaps) = 0 THEN {} ELSE {[f \in {snaps[1].file} |-> 2]})

ChecksInit ==
    /\ W2Idle
    /\ CorrIdle
    /\ HouseIdle
    /\ HeapIdle
    /\ LineIdle
    /\ pc = "checks_call"
    /\ tolerance = 1
    /\ \E n \in 0..MaxSnapshots :
          \E profile \in [1..n -> CheckProfiles], pay_date \in [1..n -> DedupDates] :
             snapshots = [i \in 1..n |-> CheckSnapshot(i, pay_date[i], profile[i])]
    /\ pay_date_overrides \in CheckOverrides(snapshots)
    /\ verified = NoRun
    /\ reverified = NoRun
    /\ promoted = NoPromotion
    /\ canonical = NoDedup
    /\ extracted_data = << >>
    /\ comparisons = <<>>
    /\ consistency_issues = <<>>
    /\ filing_safety = NoResult

\* run_consistency_checks(snapshots, tolerance, pay_date_overrides)
RunConsistencyChecks ==
    /\ pc = "checks_call"
    /\ consistency_issues' = run_consistency_checks(snapshots, tolerance, pay_date_overrides)
    /\ pc' = "checked"
    /\ UNCHANGED <<tolerance, heapVars, lineVars, extracted_data, comparisons, filing_safety, w2Vars, corrVars,
                   seqVars, houseVars>>

ChecksNext == RunConsistencyChecks

ChecksSpec == ChecksInit /\ [][ChecksNext]_vars

----------------------------------------------------------------------------
(* C12 *)

\* the snapshots that survive deduplication, ordered by pay date then file
CanonicalOfInput == deduplicate_by_pay_date(snapshots, pay_date_overrides).canonical

\* a required YTD of the last snapshot of a canonical sequence is null
HasNullYtd(canon) ==
    /\ Len(canon) > 0
    /\ LET final == canon[Len(canon)]
       IN  \/ final.gross_pay.ytd = None
           \/ final.federal_income_tax.ytd = None
           \/ final.social_security_tax.ytd = None
           \/ final.medicare_tax.ytd = None

MissingFinalIssues ==
    {k \in 1..Len(consistency_issues) : consistency_issues[k].code = "missing_final_values"}

\* C12: run_consistency_checks emits the missing_final_values issue, once and
\* as a critical issue about the last canonical snapshot, exactly when that
\* snapshot has a null YTD for gross pay, federal, social security or medicare
\* tax; null YTDs of earlier snapshots never produce it.
C12_MissingFinalValues ==
    (pc = "checked") =>
        LET canon == CanonicalOfInput
        IN  /\ (MissingFinalIssues # {}) <=> HasNullYtd(canon)
            /\ Cardinality(MissingFinalIssues) <= 1
            /\ \A k \in MissingFinalIssues :
                    /\ consistency_issues[k].severity = "critical"
                    /\ consistency_issues[k].target = canon[Len(canon)].file
                    /\ k = Len(consistency_issues)

\* an earlier canonical snapshot lacks a YTD, the last one is complete
C12_Witness ==
    /\ pc = "checked"
    /\ MissingFinalIssues = {}
    /\ LET canon == CanonicalOfInput
       IN  /\ Len(canon) >= 2
           /\ canon[1].gross_pay.ytd = None
           /\ ~HasNullYtd(canon)

----------------------------------------------------------------------------
(* annual.py: build_household_package *)

\* as CountRole, but only whether the role occurs
CountRole_present(filers, role) ==
    IF \E i \in 1..Len(filers) : filers[i].role = role THEN 1 ELSE 0

\* roles.count(role)
CountRole(filers, role) == Cardinality({i \in 1..Len(filers) : filers[i].role = role})

\* len(ids) != len(set(ids))
HasDuplicateIds(filers) ==
    Len(filers) # Cardinality({filers[i].id : i \in 1..Len(filers)})

\* as ClaimPaths, but a path that is already claimed is claimed again
RECURSIVE ClaimPaths_unchecked(_, _, _)
ClaimPaths_unchecked(seen, snaps, filer_id) ==
    IF Len(snaps) = 0 THEN [seen_paths |-> seen, clash |-> <<>>]
    ELSE ClaimPaths_unchecked(Put(seen, Head(snaps).file, filer_id), Tail(snaps), filer_id)

\* the loop over the loaded snapshots: each file is claimed for the filer,
\* up to the first file that is claimed already
RECURSIVE ClaimPaths(_, _, _)
ClaimPaths(seen, snaps, filer_id) ==
    IF Len(snaps) = 0 THEN [seen_paths |-> seen, clash |-> <<>>]
    ELSE IF Head(snaps).file \in DOMAIN seen
    THEN [seen_paths |-> seen, clash |-> <<Head(snaps).file, seen[Head(snaps).file], filer_id>>]
    ELSE ClaimPaths(Put(seen, Head(snaps).file, filer_id), Tail(snaps), filer_id)

\* the output contract: integer cents, a boolean readiness flag and a status
\* of the two allowed values
validate_output(report) ==
    /\ report.schema_version = "0.3.0"
    /\ report.household_summary.total_gross_pay_cents \in Int
    /\ report.household_summary.total_fed_tax_cents \in Int
    /\ report.household_summary.ready_to_file \in BOOLEAN
    /\ \A i \in 1..Len(report.filers) :
        /\ report.filers[i].gross_pay_cents \in Int
        /\ report.filers[i].fed_tax_cents \in Int
        /\ report.filers[i].status \in {"MATCH", "REVIEW_NEEDED"}

\* raise kind(code): the call ends without a report
Raise(kind, code) ==
    /\ outcome' = [kind |-> kind, code |-> code, report |-> <<>>]
    /\ pc' = "raised"

----------------------------------------------------------------------------
(* Inputs of the household: the injected loaders and the configuration *)

MaxFilers == 3

HouseSnapshot(i) == RepairSnapshot(i, i, [c \in {"VA"} |-> PlainPair(12721, 12721 * i)])

\* a single paystub of day 1 with the given gross pay and federal tax YTD and
\* the given VA entry
FilerSnapshot(file, gross_ytd, fed_ytd, va) ==
    PaystubSnapshot(file, 1, PlainPair(505000, gross_ytd), PlainPair(65880, fed_ytd),
                    PlainPair(29672, 29672), PlainPair(6940, 6940), PlainPair(0, 0),
                    [c \in {"VA"} |-> va])

\* two paystubs in a row: the federal YTD of the second, 50.00, is not the
\* 20.00 of the first plus the 20.00 of the period
DeltaSnapshot(file) ==
    PaystubSnapshot(file, file, PlainPair(10000, 10000 * file),
                    PlainPair(2000, IF file = 1 THEN 2000 ELSE 5000),
                    PlainPair(620, 620 * file), PlainPair(145, 145 * file), PlainPair(0, 0),
                    [c \in {"VA"} |-> PlainPair(300, 300 * file)])

\* two paystubs in a row: gross pay grows, the YTDs of the three taxes and of
\* the state tax of the second are below those of the first
DipSnapshot(file) ==
    PaystubSnapshot(file, file, PlainPair(10000, 10000 * file),
                    PlainPair(2000, IF file = 1 THEN 5000 ELSE 2000),
                    PlainPair(620, IF file = 1 THEN 1240 ELSE 620),
                    PlainPair(145, IF file = 1 THEN 290 ELSE 145), PlainPair(0, 0),
                    [c \in {"VA"} |-> PlainPair(300, IF file = 1 THEN 600 ELSE 300)])

\* three paystubs of September: file 1 of pay date 1, file 2 of pay date 2
\* and file 3, a second stub printed with pay date 2 whose VA YTD restarts
CycleSnapshot(file) ==
    CASE file = 1 ->
            PaystubSnapshot(1, 1, PlainPair(183636, 8833641), PlainPair(12177, 1192384),
                            PlainPair(9748, 519842), PlainPair(2280, 121576), PlainPair(0, 0),
                            [c \in {"VA", "AZ"} |-> IF c = "VA" THEN PlainPair(4676, 324017)
                                                    ELSE PlainPair(None, 49826)])
      [] file = 2 ->
            PaystubSnapshot(2, 2, PlainPair(505000, 9660005), PlainPair(65880, 1294130),
                            PlainPair(29672, 569439), PlainPair(6939, 133175), PlainPair(0, 0),
                            [c \in {"VA", "AZ"} |-> IF c = "VA" THEN PlainPair(21122, 358416)
                                                    ELSE PlainPair(None, 49826)])
      [] file = 3 ->
            PaystubSnapshot(3, 2, PlainPair(321364, 9155005), PlainPair(35866, 1228250),
                            PlainPair(19925, 539767), PlainPair(4660, 126236), PlainPair(0, 0),
                            [c \in {"VA", "AZ"} |-> IF c = "VA" THEN PlainPair(None, 13277)
                                                    ELSE PlainPair(None, 49826)])

\* a W-2 with the given boxes 1 and 2, the boxes 4 and 6 of FilerSnapshot and
\* a box 17 of 127.21 for every listed state
FilerW2(box1, box2, states) ==
    [box_1_wages_tips_other_comp |-> box1,
     box_2_federal_income_tax_withheld |-> box2,
     box_4_social_security_tax_withheld |-> 29672,
     box_6_medicare_tax_withheld |-> 6940,
     state_boxes |-> [k \in 1..Len(states) |->
                        [state |-> states[k], box_17_state_income_tax |-> 12721]]]

Sources == {"docs_a", "docs_b", "docs_c", "docs_d", "docs_none"}

\* docs_a and docs_b both hold file 2
snapshot_loader(sources) ==
    CASE sources = "docs_a" -> <<HouseSnapshot(1), HouseSnapshot(2)>>
      [] sources = "docs_b" -> <<HouseSnapshot(2), HouseSnapshot(3)>>
      [] sources = "docs_c" -> <<HouseSnapshot(4)>>
      [] sources = "docs_d" -> <<HouseSnapshot(5)>>
      [] sources = "docs_none" -> <<>>
      [] sources = "docs_null_gross" -> <<FilerSnapshot(6, None, 65880, PlainPair(12721, 12721))>>
      [] sources = "docs_null_state" -> <<FilerSnapshot(7, 505000, 65880, PlainPair(12721, None))>>
      [] sources = "docs_zero" -> <<FilerSnapshot(8, 505000, 0, PlainPair(0, 0))>>
      [] sources = "docs_null_fed" -> <<FilerSnapshot(9, 505000, None, PlainPair(12721, 12721))>>
      [] sources = "docs_cycle" -> <<CycleSnapshot(1), CycleSnapshot(2), CycleSnapshot(3)>>
      [] sources = "docs_delta" -> <<DeltaSnapshot(1), DeltaSnapshot(2)>>
      [] sources = "docs_dip" -> <<DipSnapshot(1), DipSnapshot(2)>>
      [] sources = "docs_swapped" -> <<DeltaSnapshot(2), DeltaSnapshot(1)>>
      [] sources = "docs_shuffled" -> <<CycleSnapshot(3), CycleSnapshot(1), CycleSnapshot(2)>>

\* the W-2 that agrees with a snapshot, but for federal tax off by delta
W2Of(snap, delta) ==
    [box_1_wages_tips_other_comp |-> snap.gross_pay.ytd,
     box_2_federal_income_tax_withheld |-> snap.federal_income_tax.ytd + delta,
     box_4_social_security_tax_withheld |-> snap.social_security_tax.ytd,
     box_6_medicare_tax_withheld |-> snap.medicare_tax.ytd,
     state_boxes |-> <<[state |-> "VA",
                        box_17_state_income_tax |-> snap.state_income_tax["VA"].ytd]>>]

\* docs_a: a matching W-2; docs_b: no W-2; docs_c: federal tax off by 5.00;
\* docs_d: an empty W-2 dict
w2_loader(sources) ==
    CASE sources = "docs_a" -> <<W2Of(HouseSnapshot(2), 0)>>
      [] sources = "docs_b" -> NoneW2
      [] sources = "docs_c" -> <<W2Of(HouseSnapshot(4), 500)>>
      [] sources = "docs_d" -> << << >> >>
      [] sources = "docs_none" -> NoneW2
      [] sources = "docs_null_gross" -> NoneW2
      [] sources = "docs_null_state" -> NoneW2
      [] sources = "docs_zero" -> <<FilerW2(505000, 0, <<"VA">>)>>
      [] sources = "docs_null_fed" -> <<FilerW2(505000, 65880, <<"VA">>)>>
      [] sources = "docs_cycle" -> NoneW2
      [] sources = "docs_delta" -> NoneW2
      [] sources = "docs_dip" -> <<W2Of(DipSnapshot(2), 0)>>
      [] sources = "docs_swapped" -> NoneW2
      [] sources = "docs_shuffled" -> NoneW2

Roles == {"PRIMARY", "SPOUSE"}
FilerIds == <<"f1", "f2", "f3", "f4">>

\* the id of filer i: its own, or one that other filers use too
FilerId(i, shared_id) == IF shared_id THEN "dup" ELSE FilerIds[i]

\* the corrections and pay date overrides of the call, by filer id
Adjustments ==
    {[corrections |-> << >>, overrides |-> << >>],
     [corrections |-> [f \in {"f1"} |->
                        <<[key |-> "box1", is_dict |-> TRUE, value |-> 700000,
                           audit_reason |-> "OCR Error", timestamp |-> "t1"]>>],
      overrides |-> << >>],
     [corrections |-> << >>,
      overrides |-> [f \in {"f1"} |-> [file \in {1} |-> 2]]]}

HouseInit ==
    /\ HeapIdle
    /\ LineIdle
    /\ GateIdle
    /\ W2Idle
    /\ CorrIdle
    /\ SeqIdle
    /\ pc = "household_call"
    /\ tolerance = 1
    /\ \E n \in 0..MaxFilers :
          \E role \in [1..n -> Roles], shared_id \in [1..n -> BOOLEAN], sources \in [1..n -> Sources] :
             household_config =
                [filers |-> [i \in 1..n |-> [id |-> FilerId(i, shared_id[i]), role |-> role[i],
                                             sources |-> sources[i]]]]
    /\ \E adjustment \in Adjustments :
          /\ household_corrections = adjustment.corrections
          /\ household_overrides = adjustment.overrides
    /\ filer_index = 0
    /\ seen_paths = << >>
    /\ loaded = NoLoad
    /\ results = <<>>
    /\ total_gross = 0
    /\ total_fed = 0
    /\ all_ready = TRUE
    /\ outcome = Pending

\* the cardinality and id checks made before the loop over the filers
ValidateHousehold ==
    /\ pc = "household_call"
    /\ LET filers == household_config.filers
       IN  IF CountRole(filers, "PRIMARY") # 1
           THEN Raise("ValueError", "primary_cardinality") /\ UNCHANGED filer_index
           ELSE IF CountRole(filers, "SPOUSE") > 1
           THEN Raise("ValueError", "spouse_cardinality") /\ UNCHANGED filer_index
           ELSE IF HasDuplicateIds(filers)
           THEN Raise("ValueError", "duplicate_ids") /\ UNCHANGED filer_index
           ELSE /\ filer_index' = 1
                /\ pc' = IF Len(filers) >= 1 THEN "load" ELSE "finish"
                /\ UNCHANGED outcome
    /\ UNCHANGED <<tolerance, heapVars, lineVars, gateVars, w2Vars, corrVars, seqVars, houseArgs, seen_paths, loaded,
                   results, total_gross, total_fed, all_ready>>

\* the head of one loop iteration: both loaders are called, then every
\* loaded file is claimed for the filer
LoadFiler ==
    /\ pc = "load"
    /\ LET filer == household_config.filers[filer_index]
           claim == ClaimPaths(seen_paths, snapshot_loader(filer.sources), filer.id)
       IN  /\ loaded' = [snapshots |-> snapshot_loader(filer.sources),
                         w2_data |-> w2_loader(filer.sources)]
           /\ seen_paths' = claim.seen_paths
           /\ IF claim.clash # <<>>
              THEN Raise("ValueError", "shared_file")
              ELSE pc' = "analyze" /\ UNCHANGED outcome
    /\ UNCHANGED <<tolerance, heapVars, lineVars, gateVars, w2Vars, corrVars, seqVars, houseArgs, filer_index,
                   results, total_gross, total_fed, all_ready>>

\* as Aggregate, but the totals are those of the filer analyzed last
Aggregate_last(analysis) ==
    /\ results' = Append(results, analysis)
    /\ total_gross' = analysis.public.gross_pay_cents
    /\ total_fed' = analysis.public.fed_tax_cents
    /\ all_ready' = (all_ready /\ analysis.public.status = "MATCH")

\* results.append(analysis) and the aggregation
Aggregate(analysis) ==
    /\ results' = Append(results, analysis)
    /\ total_gross' = total_gross + analysis.public.gross_pay_cents
    /\ total_fed' = total_fed + analysis.public.fed_tax_cents
    /\ all_ready' = (all_ready /\ analysis.public.status = "MATCH")

\* the rest of the iteration: analyze_filer on what was loaded, then the
\* aggregation
AnalyzeFiler ==
    /\ pc = "analyze"
    /\ LET filers == household_config.filers
           filer == filers[filer_index]
       IN  IF Len(loaded.snapshots) = 0
           THEN /\ Raise("ValueError", "no_snapshots")
                /\ UNCHANGED <<filer_index, results, total_gross, total_fed, all_ready>>
           ELSE /\ Aggregate(analyze_filer(loaded.snapshots, tolerance, loaded.w2_data,
                                           filer.id, filer.role,
                                           IF filer.id \in DOMAIN household_corrections
                                           THEN household_corrections[filer.id] ELSE <<>>,
                                           IF filer.id \in DOMAIN household_overrides
                                           THEN household_overrides[filer.id] ELSE NoOverrides))
                /\ filer_index' = filer_index + 1
                /\ pc' = IF filer_index < Len(filers) THEN "load" ELSE "finish"
                /\ UNCHANGED outcome
    /\ UNCHANGED <<tolerance, heapVars, lineVars, gateVars, w2Vars, corrVars, seqVars, houseArgs, seen_paths, loaded>>

\* after the loop: the report is built and validated against the contract
BuildReport ==
    /\ pc = "finish"
    /\ LET public_report ==
                [schema_version |-> "0.3.0",
                 household_summary |-> [total_gross_pay_cents |-> total_gross,
                                        total_fed_tax_cents |-> total_fed,
                                        ready_to_file |-> all_ready],
                 filers |-> [i \in 1..Len(results) |-> results[i].public]]
       IN  IF validate_output(public_report)
           THEN /\ outcome' = [kind |-> "report", code |-> "ok",
                               report |-> <<[report |-> public_report,
                                             filers_analysis |-> results]>>]
                /\ pc' = "returned"
           ELSE Raise("ContractError", "v0_3_0_contract")
    /\ UNCHANGED <<tolerance, heapVars, lineVars, gateVars, w2Vars, corrVars, seqVars, houseArgs, filer_index,
                   seen_paths, loaded, results, total_gross, total_fed, all_ready>>

Next == ValidateHousehold \/ LoadFiler \/ AnalyzeFiler \/ BuildReport

Spec == HouseInit /\ [][Next]_vars

----------------------------------------------------------------------------
(* C2, C3, C4 *)

Filers == household_config.filers

\* the files the snapshot loader returns for filer i
FilesOf(i) ==
    {snapshot_loader(Filers[i].sources)[k].file :
        k \in 1..Len(snapshot_loader(Filers[i].sources))}

Returned == outcome.kind = "report"

\* C2: in the returned report, household_summary.ready_to_file is true
\* exactly when the safety gate of every filer passed.
C2_ReadyIffEveryGatePassed ==
    Returned =>
        LET package == outcome.report[1]
        IN  package.report.household_summary.ready_to_file
              = (\A i \in 1..Len(package.filers_analysis) :
                    package.filers_analysis[i].meta.filing_safety.passed)

ValidHousehold ==
    /\ Cardinality({i \in 1..Len(Filers) : Filers[i].role = "PRIMARY"}) = 1
    /\ Cardinality({i \in 1..Len(Filers) : Filers[i].role = "SPOUSE"}) <= 1
    /\ \A i, j \in 1..Len(Filers) : i # j => Filers[i].id # Filers[j].id
    /\ \A i, j \in 1..Len(Filers) : i # j => FilesOf(i) \cap FilesOf(j) = {}

\* C3: a report is returned only for a household with exactly one PRIMARY, at
\* most one SPOUSE, distinct ids and no file claimed by two filers; for any
\* other household the call ends with an error and no report.
C3_ReportOnlyForValidHousehold ==
    /\ pc \in {"finish", "returned"} => ValidHousehold
    /\ Returned => pc = "returned" /\ ValidHousehold /\ Len(outcome.report) = 1
    /\ (~ValidHousehold /\ pc \in {"returned", "raised"}) =>
            /\ pc = "raised"
            /\ outcome.kind = "ValueError"
            /\ outcome.report = <<>>

\* a report for a household of a PRIMARY and a SPOUSE
C3_Witness ==
    /\ Returned
    /\ Len(Filers) = 2
    /\ ValidHousehold
    /\ Len(outcome.report[1].report.filers) = 2

ConfigurationErrors ==
    {"primary_cardinality", "spouse_cardinality", "duplicate_ids", "shared_file"}

\* C4: when the call fails on a cardinality violation, a duplicate id or a
\* shared document, analyze_filer has run for no filer.
C4_NoFilerAnalyzedBeforeFailure ==
    (pc = "raised" /\ outcome.code \in ConfigurationErrors) => Len(results) = 0

\* C4 as amended: a cardinality or id failure comes before any filer is
\* loaded or analyzed; a shared-document failure comes when the filer that
\* claims an already claimed file is loaded, after exactly the filers before
\* it were analyzed; and no filer is ever analyzed on a file that an earlier
\* filer claimed.
C4_FailureBeforeClaimantAnalyzed ==
    /\ (pc = "raised" /\ outcome.code \in ConfigurationErrors \ {"shared_file"}) =>
            /\ Len(results) = 0
            /\ loaded = NoLoad
            /\ seen_paths = << >>
    /\ (pc = "raised" /\ outcome.code = "shared_file") =>
            /\ Len(results) = filer_index - 1
            /\ \A i \in 1..Len(results) : results[i].public.id = Filers[i].id
            /\ outcome.report = <<>>
    /\ \A i, j \in 1..Len(results) : i # j => FilesOf(i) \cap FilesOf(j) = {}

\* the second filer claims a file of the first, which has been analyzed
C4_Witness ==
    /\ pc = "raised"
    /\ outcome.code = "shared_file"
    /\ filer_index = 2
    /\ Len(results) = 1
    /\ FilesOf(1) \cap FilesOf(2) # {}

----------------------------------------------------------------------------
(* C14 *)

\* the correction of a filer's gross pay (box1), if the call carries one
Box1Of(filer_id) ==
    IF filer_id \in DOMAIN household_corrections
    THEN SelectSeq(household_corrections[filer_id], LAMBDA c : c.is_dict /\ c.key = "box1")
    ELSE <<>>

\* C14: in a returned report, total_gross_pay_cents and total_fed_tax_cents
\* are the sums over the filers of gross_pay_cents and fed_tax_cents, and
\* each filer's amount is its effective YTD in cents: the value of its
\* correction when it has one, else the YTD of its final snapshot.
C14_TotalsAreSums ==
    Returned =>
        LET package == outcome.report[1]
            summary == package.report.household_summary
            filers == package.report.filers
            n == Len(filers)
        IN  /\ summary.total_gross_pay_cents = SumOver([i \in 1..n |-> filers[i].gross_pay_cents], 1..n)
            /\ summary.total_fed_tax_cents = SumOver([i \in 1..n |-> filers[i].fed_tax_cents], 1..n)
            /\ n = Len(Filers)
            /\ \A i \in 1..n :
                    LET effective_tree == package.filers_analysis[i].meta.extracted
                        final == snapshot_loader(Filers[i].sources)[Len(snapshot_loader(Filers[i].sources))]
                    IN  /\ filers[i].id = Filers[i].id
                        /\ effective_tree["gross_pay"]["ytd"] # None =>
                                filers[i].gross_pay_cents = effective_tree["gross_pay"]["ytd"]
                        /\ effective_tree["federal_income_tax"]["ytd"] # None =>
                                filers[i].fed_tax_cents = effective_tree["federal_income_tax"]["ytd"]
                        /\ effective_tree["gross_pay"]["ytd"] =
                                IF Len(Box1Of(filers[i].id)) > 0 THEN Box1Of(filers[i].id)[1].value
                                ELSE final.gross_pay.ytd
                        /\ effective_tree["federal_income_tax"]["ytd"] = final.federal_income_tax.ytd

\* two filers, the first with a corrected gross pay
C14_Witness ==
    /\ Returned
    /\ Len(Filers) = 2
    /\ Len(Box1Of(Filers[1].id)) > 0
    /\ outcome.report[1].report.filers[1].gross_pay_cents = 700000
    /\ outcome.report[1].report.filers[2].gross_pay_cents > 0
    /\ outcome.report[1].report.household_summary.total_gross_pay_cents
            = 700000 + outcome.report[1].report.filers[2].gross_pay_cents

----------------------------------------------------------------------------
(* A household of one filer: build_household_package down to analyze_filer *)

FilerSources ==
    {"docs_a", "docs_c", "docs_d", "docs_null_gross", "docs_null_state", "docs_zero",
     "docs_null_fed", "docs_cycle", "docs_delta", "docs_dip"}

\* a correction of filer f1 as the call carries it
FilerCorrection(key, value) ==
    [f \in {"f1"} |-> <<[key |-> key, is_dict |-> TRUE, value |-> value,
                         audit_reason |-> "OCR Error", timestamp |-> "t1"]>>]

\* a pay date override of filer f1 for one file
FilerOverride(file, pay_date) == [f \in {"f1"} |-> [x \in {file} |-> pay_date]]

FilerAdjustments ==
    {[corrections |-> << >>, overrides |-> << >>],
     [corrections |-> FilerCorrection("box1", 700000), overrides |-> << >>],
     [corrections |-> FilerCorrection("box1", None), overrides |-> << >>],
     [corrections |-> FilerCorrection("box2", 65880), overrides |-> << >>],
     [corrections |-> FilerCorrection("box2", 264020), overrides |-> << >>],
     [corrections |-> FilerCorrection("state_income_tax_VA", 12721), overrides |-> << >>],
     [corrections |-> FilerCorrection("state_income_tax_AZ", None), overrides |-> << >>],
     [corrections |-> << >>, overrides |-> FilerOverride(3, 1)],
     [corrections |-> << >>, overrides |-> FilerOverride(3, 2)],
     [corrections |-> << >>, overrides |-> FilerOverride(3, BadDate)],
     [corrections |-> << >>, overrides |-> FilerOverride(1, 2)],
     [corrections |-> << >>, overrides |-> FilerOverride(2, 0)]}

FilerInit ==
    /\ HeapIdle
    /\ LineIdle
    /\ GateIdle
    /\ W2Idle
    /\ CorrIdle
    /\ SeqIdle
    /\ pc = "household_call"
    /\ tolerance \in {1, 50}
    /\ \E sources \in FilerSources :
          household_config = [filers |-> <<[id |-> "f1", role |-> "PRIMARY", sources |-> sources]>>]
    /\ \E adjustment \in FilerAdjustments :
          /\ household_corrections = adjustment.corrections
          /\ household_overrides = adjustment.overrides
    /\ filer_index = 0
    /\ seen_paths = << >>
    /\ loaded = NoLoad
    /\ results = <<>>
    /\ total_gross = 0
    /\ total_fed = 0
    /\ all_ready = TRUE
    /\ outcome = Pending

FilerSpec == FilerInit /\ [][Next]_vars

----------------------------------------------------------------------------
(* C15 *)

\* the filer report and the effective tree of the filer of a returned report
FilerReport == outcome.report[1].report.filers[1]
EffectiveTree == outcome.report[1].filers_analysis[1].meta.extracted

\* C15: in a filer report a monetary field that reads 0 cents (gross pay,
\* federal tax, a state's tax) has an effective YTD of 0.00, never a null one;
\* a null YTD is not added to the household totals as 0.
C15_NullNeverZero ==
    Returned =>
        /\ FilerReport.gross_pay_cents = 0 => EffectiveTree["gross_pay"]["ytd"] = 0
        /\ FilerReport.fed_tax_cents = 0 => EffectiveTree["federal_income_tax"]["ytd"] = 0
        /\ \A st \in DOMAIN FilerReport.state_tax_by_state_cents :
                FilerReport.state_tax_by_state_cents[st] = 0 =>
                    Get(EffectiveTree["state_income_tax"][st], "ytd") = 0

----------------------------------------------------------------------------
(* C18 *)

\* the corrections of the filer with the given key
CorrectionsOf(key) ==
    IF "f1" \in DOMAIN household_corrections
    THEN SelectSeq(household_corrections["f1"], LAMBDA c : c.key = key)
    ELSE <<>>

\* the errors of the safety gate of the filer that name the field
GateErrorsOn(field) ==
    SelectSeq(outcome.report[1].filers_analysis[1].meta.filing_safety.errors,
              LAMBDA e : e.kind \in {"mismatch", "missing_value"} /\ e.field = field)

\* C18: the W-2 comparison is made on the corrected values: when a correction
\* of box2 puts the federal tax within tolerance of the W-2's box 2, the gate
\* reports neither a mismatch nor a missing value for federal tax.
C18_GateComparesCorrectedValues ==
    Returned =>
        LET w2 == w2_loader(household_config.filers[1].sources)
            box2 == CorrectionsOf("box2")
        IN  (/\ Len(w2) = 1
             /\ "box_2_federal_income_tax_withheld" \in DOMAIN w2[1]
             /\ Len(box2) = 1
             /\ box2[1].value # None
             /\ Abs(box2[1].value - w2[1]["box_2_federal_income_tax_withheld"]) <= tolerance)
            => /\ Len(GateErrorsOn("federal_income_tax_withheld")) = 0
               /\ EffectiveTree["federal_income_tax"]["ytd"] = box2[1].value

----------------------------------------------------------------------------
(* C19 *)

\* the overrides of the filer, and the pay date an override gives a snapshot
\* (None when it has none, one that is no date, or its own pay date)
FilerOverrides == IF "f1" \in DOMAIN household_overrides THEN household_overrides["f1"] ELSE << >>
OverriddenDate(snap) ==
    IF snap.file \in DOMAIN FilerOverrides /\ FilerOverrides[snap.file] \notin {BadDate, snap.pay_date}
    THEN FilerOverrides[snap.file] ELSE None

\* the snapshots of the filer with the overridden pay dates, in pay date order
Timeline ==
    LET snaps == snapshot_loader(household_config.filers[1].sources)
    IN  SortSnapshots([i \in 1..Len(snaps) |->
            IF OverriddenDate(snaps[i]) # None
            THEN [snaps[i] EXCEPT !.pay_date = OverriddenDate(snaps[i])] ELSE snaps[i]])

FilerMeta == outcome.report[1].filers_analysis[1].meta
IssuesCoded(codes) == SelectSeq(FilerMeta.consistency_issues, LAMBDA issue : issue.code \in codes)

\* C19: analyze_filer applies the overrides first: there is one
\* pay_date_override_applied issue per snapshot whose pay date changes, and the
\* repairs of state YTDs, the duplicate pay date groups and the final
\* snapshot of the report are those of the snapshots ordered and grouped by
\* their overridden pay dates.
C19_OverridesRunFirst ==
    Returned =>
        LET snaps == snapshot_loader(household_config.filers[1].sources)
            changed == {i \in 1..Len(snaps) : OverriddenDate(snaps[i]) # None}
            repair == verify_and_repair_state_ytd_anomalies(Timeline, tolerance)
            dedup == deduplicate_by_pay_date(repair.snapshots, NoOverrides)
            final == dedup.canonical[Len(dedup.canonical)]
        IN  /\ Len(IssuesCoded({"pay_date_override_applied"})) = Cardinality(changed)
            /\ \A i \in changed :
                    \E k \in 1..Len(FilerMeta.consistency_issues) :
                        /\ FilerMeta.consistency_issues[k].code = "pay_date_override_applied"
                        /\ FilerMeta.consistency_issues[k].target = snaps[i].file
            /\ IssuesCoded({"state_ytd_underflow_corrected", "state_ytd_outlier_corrected"})
                    = repair.issues
            /\ IssuesCoded({"duplicate_pay_date"}) = dedup.issues
            /\ FilerMeta.paystub_count_canonical = Len(dedup.canonical)
            /\ FilerMeta.latest_paystub_file = final.file
            /\ FilerMeta.latest_pay_date = final.pay_date

\* the second stub of September moved to pay date 1: its VA YTD is rebuilt
\* from the stub of pay date 1 (3240.17 + 132.77) and the two stubs of pay
\* date 1 form one duplicate group
C19_Witness ==
    /\ Returned
    /\ household_config.filers[1].sources = "docs_cycle"
    /\ OverriddenDate(CycleSnapshot(3)) = 1
    /\ Len(IssuesCoded({"pay_date_override_applied"})) = 1
    /\ \E k \in 1..Len(FilerMeta.consistency_issues) :
            /\ FilerMeta.consistency_issues[k].code = "state_ytd_underflow_corrected"
            /\ FilerMeta.consistency_issues[k].detail[2] = 337294
    /\ \E k \in 1..Len(FilerMeta.consistency_issues) :
            /\ FilerMeta.consistency_issues[k].code = "duplicate_pay_date"
            /\ FilerMeta.consistency_issues[k].target = 1
    /\ FilerMeta.paystub_count_canonical = 2

----------------------------------------------------------------------------
(* Object identity in the continuity stages and the correction merger *)

\* An address names one Python object: the structure it belongs to ("in" is
\* the caller's argument, the other names are structures a stage creates),
\* the position of its snapshot or correction (0 for none) and its part.
\* A list object is the sequence of its items' addresses, a dict object maps
\* its keys to addresses (or plain values), a PaystubSnapshot object holds
\* the addresses of its AmountPairs and of its state map.
InputList == <<"in", 0, "list">>
InputTree == <<"in", 0, "tree">>

SnapshotParts ==
    {"gross_pay", "federal_income_tax", "social_security_tax", "medicare_tax", "k401_contrib"}

\* the objects of a caller's snapshot list
StoreSnapshots(snaps) ==
    LET n == Len(snaps)
        addrs == {InputList}
                 \cup {<<"in", i, part>> :
                        i \in 1..n, part \in SnapshotParts \cup {"snapshot", "state_income_tax"}}
                 \cup UNION {{<<"in", i, st>> : st \in DOMAIN snaps[i].state_income_tax} : i \in 1..n}
    IN  [a \in addrs |->
            CASE a[3] = "list" -> [i \in 1..n |-> <<"in", i, "snapshot">>]
              [] a[3] = "snapshot" ->
                    [file |-> snaps[a[2]].file, pay_date |-> snaps[a[2]].pay_date,
                     gross_pay |-> <<"in", a[2], "gross_pay">>,
                     federal_income_tax |-> <<"in", a[2], "federal_income_tax">>,
                     social_security_tax |-> <<"in", a[2], "social_security_tax">>,
                     medicare_tax |-> <<"in", a[2], "medicare_tax">>,
                     k401_contrib |-> <<"in", a[2], "k401_contrib">>,
                     state_income_tax |-> <<"in", a[2], "state_income_tax">>]
              [] a[3] = "state_income_tax" ->
                    [st \in DOMAIN snaps[a[2]].state_income_tax |-> <<"in", a[2], st>>]
              [] a[3] \in SnapshotParts -> snaps[a[2]][a[3]]
              [] OTHER -> snaps[a[2]].state_income_tax[a[3]]]

\* the value of the snapshot object at an address, and of a list of them
SnapshotValue(h, a) ==
    PaystubSnapshot(h[a].file, h[a].pay_date, h[h[a].gross_pay], h[h[a].federal_income_tax],
                    h[h[a].social_security_tax], h[h[a].medicare_tax], h[h[a].k401_contrib],
                    [st \in DOMAIN h[h[a].state_income_tax] |-> h[h[h[a].state_income_tax][st]]])

ListValue(h, list) == [i \in 1..Len(h[list]) |-> SnapshotValue(h, h[list][i])]

\* a snapshot's value together with the address of its object
Referenced(h, list) == [i \in 1..Len(h[list]) |-> [addr |-> h[list][i]] @@ SnapshotValue(h, h[list][i])]

\* as CopyObject, but the "copy" is the object itself
CopyObject_alias(h, src, dst) == [heap |-> h, ret |-> src]

\* list(x), dict.copy(): a new object with the items of the old one
CopyObject(h, src, dst) == [heap |-> Put(h, dst, h[src]), ret |-> dst]

\* apply_manual_pay_date_overrides on objects: the list is copied, a changed
\* snapshot is a new object made by replace(), the copy is sorted in place
OverrideObjects(h, list, overrides) ==
    IF Len(h[list]) = 0
    THEN [heap |-> Put(h, <<"adjusted", 0, "list">>, <<>>), ret |-> <<"adjusted", 0, "list">>]
    ELSE IF DOMAIN overrides = {} THEN CopyObject(h, list, <<"adjusted", 0, "list">>)
    ELSE LET adjusted == CopyObject(h, list, <<"adjusted", 0, "list">>)
             h1 == adjusted.heap
             items == h1[adjusted.ret]
             changed == {idx \in 1..Len(items) : OverrideFor(h1[items[idx]], overrides) # None}
             \* adjusted[idx] = replace(snapshot, pay_date=normalized)
             h2 == [a \in DOMAIN h1 \cup {<<"adjusted", idx, "snapshot">> : idx \in changed} |->
                        IF a \in DOMAIN h1 THEN h1[a]
                        ELSE [h1[items[a[2]]] EXCEPT
                                !.pay_date = OverrideFor(h1[items[a[2]]], overrides)]]
             replaced == [idx \in 1..Len(items) |->
                            IF idx \in changed THEN <<"adjusted", idx, "snapshot">> ELSE items[idx]]
             \* adjusted.sort(key=snapshot_sort_key)
             sorted == SortSnapshots([idx \in 1..Len(items) |->
                            [addr |-> replaced[idx], file |-> h2[replaced[idx]].file,
                             pay_date |-> h2[replaced[idx]].pay_date]])
         IN  [heap |-> Put(h2, adjusted.ret, [idx \in 1..Len(items) |-> sorted[idx].addr]),
              ret |-> adjusted.ret]

\* as CloneStates, but the clone keeps the state map of the snapshot it copies
CloneStates_shared(h, i, src) == [heap |-> h, ret |-> h[src].state_income_tax]

\* state_copy of clone_snapshots: a new dict of new AmountPairs
CloneStates(h, i, src) ==
    LET states == h[h[src].state_income_tax]
        h1 == [a \in DOMAIN h \cup {<<"clone", i, st>> : st \in DOMAIN states} |->
                  IF a \in DOMAIN h THEN h[a] ELSE clone_pair(h[states[a[3]]])]
    IN  [heap |-> Put(h1, <<"clone", i, "state_income_tax">>,
                      [st \in DOMAIN states |-> <<"clone", i, st>>]),
         ret |-> <<"clone", i, "state_income_tax">>]

RECURSIVE CloneFrom(_, _, _)
\* the loop of clone_snapshots from item i on: the AmountPairs of the five
\* fixed fields are shared with the original, the state map is not
CloneFrom(h, list, i) ==
    IF i > Len(h[list]) THEN h
    ELSE LET state_copy == CloneStates(h, i, h[list][i])
         IN  CloneFrom(Put(state_copy.heap, <<"clone", i, "snapshot">>,
                           [h[h[list][i]] EXCEPT !.state_income_tax = state_copy.ret]),
                       list, i + 1)

CloneObjects(h, list) ==
    [heap |-> Put(CloneFrom(h, list, 1), <<"clone", 0, "list">>,
                  [i \in 1..Len(h[list]) |-> <<"clone", i, "snapshot">>]),
     ret |-> <<"clone", 0, "list">>]

\* verify_and_repair_state_ytd_anomalies on objects: every repair stores a
\* new AmountPair in the state map of a snapshot of repaired
RepairObjects(h, list, tol) ==
    IF Len(h[list]) = 0 THEN [heap |-> h, ret |-> list]
    ELSE LET repaired == CloneObjects(h, list)
             h1 == repaired.heap
             n == Len(h1[repaired.ret])
             result == verify_and_repair_state_ytd_anomalies(ListValue(h, list), tol)
             noted(i) == IF h[h[list][i]].file \in DOMAIN result.notes
                         THEN result.notes[h[h[list][i]].file] ELSE <<>>
             written == {w \in (1..n) \X {StateCodes[k] : k \in 1..Len(StateCodes)} :
                            \E k \in 1..Len(noted(w[1])) : noted(w[1])[k][1] = w[2]}
             map_of(i) == h1[h1[repaired.ret][i]].state_income_tax
             h2 == [a \in DOMAIN h1 \cup {<<"repair", w[1], w[2]>> : w \in written} |->
                        IF a[1] = "repair" THEN result.snapshots[a[2]].state_income_tax[a[3]]
                        ELSE h1[a]]
         IN  [heap |-> [a \in DOMAIN h2 |->
                            IF \E i \in 1..n : map_of(i) = a
                            THEN [st \in DOMAIN h2[a] |->
                                    IF \E i \in 1..n : map_of(i) = a /\ <<i, st>> \in written
                                    THEN <<"repair", (CHOOSE i \in 1..n : map_of(i) = a), st>>
                                    ELSE h2[a][st]]
                            ELSE h2[a]],
              ret |-> repaired.ret]

\* deduplicate_by_pay_date on objects: the canonical list is a new list of
\* the snapshot objects apply_manual_pay_date_overrides returned
DedupObjects(h, list, overrides) ==
    LET normalized == OverrideObjects(h, list, overrides)
        canon == DedupNormalized([snapshots |-> Referenced(normalized.heap, normalized.ret),
                                  issues |-> <<>>]).canonical
    IN  [heap |-> Put(normalized.heap, <<"canonical", 0, "list">>,
                      [i \in 1..Len(canon) |-> canon[i].addr]),
         ret |-> <<"canonical", 0, "list">>]

\* the objects of an extracted tree: the top dict, one dict per field, the
\* state dict and one dict per state; scalars are stored in the top dict
StoreTree(data) ==
    LET fields == DOMAIN data \ ScalarKeys
        addrs == {InputTree} \cup {<<"in", 0, k>> : k \in fields}
                 \cup {<<"in", 0, st>> : st \in DOMAIN data["state_income_tax"]}
    IN  [a \in addrs |->
            CASE a[3] = "tree" ->
                    [k \in DOMAIN data |-> IF k \in ScalarKeys THEN data[k] ELSE <<"in", 0, k>>]
              [] a[3] = "state_income_tax" ->
                    [st \in DOMAIN data["state_income_tax"] |-> <<"in", 0, st>>]
              [] a[3] \in fields -> data[a[3]]
              [] OTHER -> data["state_income_tax"][a[3]]]

\* the value of the tree whose top dict is at an address
TreeValue(h, tree) ==
    [k \in DOMAIN h[tree] |->
        IF k \in ScalarKeys THEN h[tree][k]
        ELSE IF k = "state_income_tax"
        THEN [st \in DOMAIN h[h[tree][k]] |-> h[h[h[tree][k]][st]]]
        ELSE h[h[tree][k]]]

\* effective[target_key][...] = value on the dict object at an address
SetItem(h, a, key, value) == Put(h, a, Put(h[a], key, value))

\* the writes of the correction marks into a field or state dict object
MarkCorrected(h, a, new_val, reason) == Put(h, a, Corrected(h[a], new_val, reason))

\* one iteration of the loop of merge_corrections on objects; k is the
\* position of the correction, effective the address of the top dict
MergeObject(h, effective_dict, k, correction) ==
    LET target0 == box_map(correction.key)
        is_state == IsStateKey(target0)
        target_key == IF is_state THEN "state_income_tax" ELSE target0
        \* effective[target_key] = {"ytd": None}
        h1 == IF target_key \notin DOMAIN h[effective_dict]
                 /\ target_key \in {"social_security_wages", "medicare_wages"}
              THEN SetItem(Put(h, <<"effective", k, "created">>, [ytd |-> None]),
                           effective_dict, target_key, <<"effective", k, "created">>)
              ELSE h
    IN  IF ~correction.is_dict \/ IsBareStateKey(target0) THEN h
        ELSE IF target_key \notin DOMAIN h1[effective_dict] THEN h1
        ELSE IF is_state
        THEN LET state_code == StateCodeOf(target0)
                 \* effective[target_key] = effective[target_key].copy()
                 states == CopyObject(h1, h1[effective_dict][target_key],
                                      <<"effective", k, "state_income_tax">>)
                 h2 == SetItem(states.heap, effective_dict, target_key, states.ret)
                 \* the state's dict: a copy, or a new {"this_period": None}
                 entry == IF state_code \in DOMAIN h2[states.ret]
                          THEN CopyObject(h2, h2[states.ret][state_code], <<"effective", k, state_code>>)
                          ELSE [heap |-> Put(h2, <<"effective", k, state_code>>, [this_period |-> None]),
                                ret |-> <<"effective", k, state_code>>]
                 h3 == SetItem(entry.heap, states.ret, state_code, entry.ret)
             IN  MarkCorrected(h3, entry.ret, correction.value, ReasonOf(correction))
        ELSE IF target_key \notin ScalarKeys /\ "ytd" \in DOMAIN h1[h1[effective_dict][target_key]]
        THEN LET field == CopyObject(h1, h1[effective_dict][target_key], <<"effective", k, target_key>>)
                 h2 == SetItem(field.heap, effective_dict, target_key, field.ret)
             IN  MarkCorrected(h2, field.ret, correction.value, ReasonOf(correction))
        ELSE SetItem(h1, effective_dict, target_key, correction.value)

RECURSIVE MergeFrom(_, _, _, _)
MergeFrom(h, effective_dict, corrs, k) ==
    IF k > Len(corrs) THEN h
    ELSE MergeFrom(MergeObject(h, effective_dict, k, corrs[k]), effective_dict, corrs, k + 1)

\* merge_corrections on objects: effective = extracted_data.copy(), then
\* the loop (not entered for an empty map)
MergeObjects(h, tree, corrs) ==
    LET top == CopyObject(h, tree, <<"effective", 0, "tree">>)
    IN  [heap |-> MergeFrom(top.heap, top.ret, corrs, 1), ret |-> top.ret]

----------------------------------------------------------------------------
(* Inputs of the stage calls on objects *)

\* the AZ entry of a snapshot: none, regular, or one that repair rewrites
FramePairs ==
    {NoEntry, AmountPair(8461, 16922, "evidence"), AmountPair(8461, 422442, "evidence"),
     AmountPair(None, 49826, "evidence"), AmountPair(None, 8461, "evidence")}

FrameSnapshotInit ==
    /\ CorrIdle
    /\ extracted_data = << >>
    /\ tolerance \in RepairTolerances
    /\ \/ /\ pc = "repair_objects_call"
          /\ \E n \in 0..MaxSnapshots :
                \E az \in [1..n -> FramePairs],
                   same_day \in {f \in [1..n -> BOOLEAN] : n = 0 \/ ~f[1]} :
                   snapshots = [i \in 1..n |->
                                  RepairSnapshot(i, DateOf(same_day, i),
                                                 RepairStateMap(az[i], TRUE, i))]
          /\ pay_date_overrides = NoOverrides
       \/ /\ pc \in {"override_objects_call", "dedup_objects_call"}
          /\ \E n \in 0..MaxSnapshots :
                \E profile \in [1..n -> QualityProfiles], pay_date \in [1..n -> DedupDates] :
                   snapshots = [i \in 1..n |-> DedupSnapshot(i, pay_date[i], profile[i])]
          /\ pay_date_overrides \in DedupOverrides(snapshots)
    /\ heap = StoreSnapshots(snapshots)

FrameTreeInit ==
    /\ pc = "merge_objects_call"
    /\ tolerance = 1
    /\ snapshots = <<>>
    /\ pay_date_overrides = NoOverrides
    /\ extracted_data \in CorrTrees
    /\ corrections \in CorrectionMaps
    /\ effective = << >>
    /\ correction_trace = <<>>
    /\ heap = StoreTree(extracted_data)

FrameInit ==
    /\ LineIdle
    /\ W2Idle
    /\ HouseIdle
    /\ comparisons = <<>>
    /\ consistency_issues = <<>>
    /\ filing_safety = NoResult
    /\ verified = NoRun
    /\ reverified = NoRun
    /\ promoted = NoPromotion
    /\ canonical = NoDedup
    /\ ret = NoObject
    /\ (FrameSnapshotInit \/ FrameTreeInit)

\* what the four calls leave alone apart from the objects
FrameUnchanged ==
    UNCHANGED <<tolerance, gateVars, w2Vars, corrVars, seqVars, houseVars, lineVars>>

\* apply_manual_pay_date_overrides(snapshots, pay_date_overrides)
OverrideCall ==
    /\ pc = "override_objects_call"
    /\ LET out == OverrideObjects(heap, InputList, pay_date_overrides)
       IN  heap' = out.heap /\ ret' = out.ret
    /\ pc' = "override_objects_returned"
    /\ FrameUnchanged

\* verify_and_repair_state_ytd_anomalies(snapshots, tolerance)
RepairCall ==
    /\ pc = "repair_objects_call"
    /\ LET out == RepairObjects(heap, InputList, tolerance)
       IN  heap' = out.heap /\ ret' = out.ret
    /\ pc' = "repair_objects_returned"
    /\ FrameUnchanged

\* deduplicate_by_pay_date(snapshots, pay_date_overrides)
DedupCall ==
    /\ pc = "dedup_objects_call"
    /\ LET out == DedupObjects(heap, InputList, pay_date_overrides)
       IN  heap' = out.heap /\ ret' = out.ret
    /\ pc' = "dedup_objects_returned"
    /\ FrameUnchanged

\* merge_corrections(extracted_data, corrections)
MergeCall ==
    /\ pc = "merge_objects_call"
    /\ LET out == MergeObjects(heap, InputTree, corrections)
       IN  heap' = out.heap /\ ret' = out.ret
    /\ pc' = "merge_objects_returned"
    /\ FrameUnchanged

FrameNext == OverrideCall \/ RepairCall \/ DedupCall \/ MergeCall

FrameSpec == FrameInit /\ [][FrameNext]_vars

----------------------------------------------------------------------------
(* C13 *)

\* the objects of the caller's argument as they were when the call was made
InputObjects ==
    IF pc \in {"merge_objects_call", "merge_objects_returned"}
    THEN StoreTree(extracted_data) ELSE StoreSnapshots(snapshots)

Returned13 ==
    pc \in {"override_objects_returned", "repair_objects_returned", "dedup_objects_returned",
            "merge_objects_returned"}

\* C13: when apply_manual_pay_date_overrides, verify_and_repair_state_ytd_anomalies,
\* deduplicate_by_pay_date or merge_corrections has returned, every object of
\* its input (the list, each snapshot, state map and AmountPair; the tree and
\* its field and state dicts) is the object it was before the call, with the
\* same content.
C13_InputsNotMutated ==
    Returned13 =>
        /\ DOMAIN InputObjects \subseteq DOMAIN heap
        /\ \A a \in DOMAIN InputObjects : heap[a] = InputObjects[a]

\* a repair that rewrote a state YTD: the returned list differs from the input
C13_Witness ==
    /\ pc = "repair_objects_returned"
    /\ Len(snapshots) >= 2
    /\ ListValue(heap, ret) # snapshots
    /\ ListValue(heap, InputList) = snapshots

----------------------------------------------------------------------------
(* Inputs of the tokenizer *)

MaxTokens == 2

\* 0.00, a regular amount, the limit, one cent above it, and twice the limit
TokenDigits == {0, 65880, MAX_PLAUSIBLE_AMOUNT, MAX_PLAUSIBLE_AMOUNT + 1, 2 * MAX_PLAUSIBLE_AMOUNT}
MoneyTokens == {MoneyToken(sign, digits) : sign \in {"", "-", "+"}, digits \in TokenDigits}
\* the keywords of a line: none, one of the six, or one of each kind
LineKeywordSets ==
    {{}, {"YTD"}, {"YEAR TO DATE"}, {"THIS PERIOD"}, {"CURRENT"}, {"REGULAR"}, {"EARNINGS"},
     {"YTD", "REGULAR"}}

TokenInit ==
    /\ GateIdle
    /\ W2Idle
    /\ CorrIdle
    /\ SeqIdle
    /\ HouseIdle
    /\ HeapIdle
    /\ pc \in {"extract_call", "pair_call"}
    /\ tolerance = 1
    /\ \E tokens \in SeqsUpTo(MoneyTokens, MaxTokens), keywords \in LineKeywordSets :
          money_line = [keywords |-> keywords, tokens |-> tokens]
    /\ money_values = <<>>
    /\ anomalies = <<>>
    /\ amount_pair = EmptyPair

\* extract_money_values_with_anomalies(line)
ExtractMoneyValues ==
    /\ pc = "extract_call"
    /\ LET out == extract_money_values_with_anomalies(money_line)
       IN  money_values' = out.values /\ anomalies' = out.anomalies
    /\ pc' = "extracted"
    /\ UNCHANGED <<tolerance, gateVars, w2Vars, corrVars, seqVars, houseVars, heapVars,
                   money_line, amount_pair>>

\* parse_amount_pair_from_line(line)
ParseAmountPair ==
    /\ pc = "pair_call"
    /\ amount_pair' = parse_amount_pair_from_line(money_line)
    /\ pc' = "paired"
    /\ UNCHANGED <<tolerance, gateVars, w2Vars, corrVars, seqVars, houseVars, heapVars,
                   money_line, money_values, anomalies>>

TokenNext == ExtractMoneyValues \/ ParseAmountPair

TokenSpec == TokenInit /\ [][TokenNext]_vars

----------------------------------------------------------------------------
(* C16 *)

\* the amount a token stands for, with and without its sign
Signed(token) == IF token.sign = "-" THEN 0 - token.digits ELSE token.digits
Magnitude(token) == token.digits

Plausible == SelectSeq(money_line.tokens, LAMBDA t : Magnitude(t) <= 1000000000)
Implausible == SelectSeq(money_line.tokens, LAMBDA t : Magnitude(t) > 1000000000)

\* one implausible_amount_filtered anomaly for each token above the limit
OneAnomalyEach ==
    /\ Len(anomalies) = Len(Implausible)
    /\ \A k \in 1..Len(anomalies) :
            /\ anomalies[k].code = "implausible_amount_filtered"
            /\ anomalies[k].token = Implausible[k]

\* C16: extract_money_values_with_anomalies returns, in line order, the
\* absolute value of exactly the tokens whose absolute value is at most
\* 10,000,000.00, and reports one implausible_amount_filtered anomaly for each
\* token above it, which is not among the returned amounts.
C16_AbsoluteValuesReturned ==
    (pc = "extracted") =>
        /\ money_values = [k \in 1..Len(Plausible) |-> Magnitude(Plausible[k])]
        /\ OneAnomalyEach

\* C16 as amended: the returned amounts are the parsed values of those
\* tokens, still carrying their sign.
C16_SignedValuesReturned ==
    (pc = "extracted") =>
        /\ money_values = [k \in 1..Len(Plausible) |-> Signed(Plausible[k])]
        /\ OneAnomalyEach

\* a negative amount at the limit is returned, one above it is filtered
C16_Witness ==
    /\ pc = "extracted"
    /\ Len(money_line.tokens) = 2
    /\ money_values = <<0 - 1000000000>>
    /\ Len(anomalies) = 1
    /\ anomalies[1].parsed = 1000000001

----------------------------------------------------------------------------
(* C17 *)

\* the amounts of the line: the magnitudes of its plausible tokens
LineAmounts == [k \in 1..Len(Plausible) |-> Magnitude(Plausible[k])]

HasYtdKeyword == "YTD" \in money_line.keywords \/ "YEAR TO DATE" \in money_line.keywords
HasPeriodKeyword ==
    \E k \in {"THIS PERIOD", "CURRENT", "REGULAR", "EARNINGS"} : k \in money_line.keywords

Resolved(this_period, ytd) == amount_pair.this_period = this_period /\ amount_pair.ytd = ytd

\* C17: of the first two amounts of a line, a second amount that is not
\* smaller is the YTD of the first; a smaller one is dropped and the first is
\* the YTD when a YTD keyword is present and the period amount otherwise
\* (only a period keyword, or no keyword).  A single amount is the YTD when a
\* YTD keyword is present and the period amount otherwise.
C17_PairResolution ==
    (pc = "paired") =>
        /\ Len(LineAmounts) >= 2 =>
                LET first == LineAmounts[1]
                    second == LineAmounts[2]
                IN  /\ second >= first => Resolved(first, second)
                    /\ (second < first /\ ~HasYtdKeyword /\ ~HasPeriodKeyword) => Resolved(first, None)
                    /\ (second < first /\ HasYtdKeyword) => Resolved(None, first)
                    /\ (second < first /\ HasPeriodKeyword /\ ~HasYtdKeyword) => Resolved(first, None)
        /\ Len(LineAmounts) = 1 =>
                /\ HasYtdKeyword => Resolved(None, LineAmounts[1])
                /\ ~HasYtdKeyword => Resolved(LineAmounts[1], None)

\* a negative period amount followed by an equal YTD, as on
\* "Federal Income Tax -658.80 658.80"
C17_Witness ==
    /\ pc = "paired"
    /\ Len(money_line.tokens) = 2
    /\ money_line.tokens[1] = MoneyToken("-", 65880)
    /\ money_line.tokens[2] = MoneyToken("", 65880)
    /\ Resolved(65880, 65880)

----------------------------------------------------------------------------
(* C21 *)

\* the field of the terminal snapshot is a lone amount that is monotonic
\* against the ytd of the nearest earlier snapshot that has one
MonotonicCandidate(field) ==
    LET n == Len(snapshots)
        pair == FieldPair(snapshots[n], field)
        earlier == {j \in 1..(n - 1) : FieldPair(snapshots[j], field).ytd # None}
    IN  /\ pair.ytd = None
        /\ pair.this_period # None
        /\ pair.this_period > 0
        /\ earlier # {}
        /\ pair.this_period >=
                FieldPair(snapshots[CHOOSE j \in earlier : \A o \in earlier : o <= j], field).ytd

MissingFinalIssuesPromoted ==
    SelectSeq(consistency_issues, LAMBDA issue : issue.code = "missing_final_values")

----------------------------------------------------------------------------
(* C22 *)

\* the canonical snapshots of the filer: overrides, repair, deduplication
FilerCanonical ==
    deduplicate_by_pay_date(
        verify_and_repair_state_ytd_anomalies(Timeline, tolerance).snapshots, NoOverrides).canonical

\* the field a delta warning is about (check_this_period_consistency calls
\* the federal tax "federal_tax")
DeltaField(issue) == IF issue.subject = "federal_tax" THEN "federal_income_tax" ELSE issue.subject

\* the warnings in the issue list of the filer that say that the YTD of the
\* field on that pay date is not the previous YTD plus the period amount
DeltaWarnings(field, pay_date) ==
    SelectSeq(FilerMeta.consistency_issues,
              LAMBDA issue :
                /\ issue.code \in {"ytd_calc_mismatch", "state_ytd_calc_mismatch",
                                   "this_period_vs_ytd_delta"}
                /\ issue.target = pay_date
                /\ DeltaField(issue) = field)

\* C22: over consecutive canonical snapshots, a field whose previous ytd,
\* ytd and this_period are all present gets a mismatch warning exactly when
\* |ytd - (prev_ytd + this_period)| > tolerance, and the issue list of
\* analyze_filer holds at most one such warning per field and snapshot.
C22_OneDeltaWarning ==
    (Returned /\ Len(snapshot_loader(household_config.filers[1].sources)) > 0) =>
        LET canon == FilerCanonical
        IN  \A i \in 2..Len(canon) :
                \A field \in {"gross_pay", "federal_income_tax", "social_security_tax",
                               "medicare_tax"}
                              \cup (DOMAIN canon[i].state_income_tax
                                        \cap DOMAIN canon[i - 1].state_income_tax) :
                    LET prev == IF IsStatutory(field) \/ field = "gross_pay"
                                THEN canon[i - 1][field] ELSE canon[i - 1].state_income_tax[field]
                        curr == IF IsStatutory(field) \/ field = "gross_pay"
                                THEN canon[i][field] ELSE canon[i].state_income_tax[field]
                        warnings == DeltaWarnings(field, canon[i].pay_date)
                    IN  /\ Len(warnings) <= 1
                        /\ (prev.ytd # None /\ curr.ytd # None /\ curr.this_period # None) =>
                                (Len(warnings) >= 1
                                    <=> Abs(curr.ytd - (prev.ytd + curr.this_period)) > tolerance)

----------------------------------------------------------------------------
(* C23 *)

DecreaseCodes == {"ytd_decrease", "ytd_calc_decrease", "state_ytd_decrease"}

\* the name a decrease issue gives to the field
DecreaseSubjects(field) ==
    CASE field = "gross_pay" -> {"gross_pay", "Gross pay"}
      [] field = "federal_income_tax" -> {"federal_income_tax", "Federal income tax"}
      [] field = "social_security_tax" -> {"social_security_tax", "Social Security tax"}
      [] field = "medicare_tax" -> {"medicare_tax", "Medicare tax"}
      [] OTHER -> {field, "State income tax total"}

\* the issues of the filer that report a decrease of the field on the pay date
DecreaseIssues(field, pay_date) ==
    SelectSeq(IssuesCoded(DecreaseCodes),
              LAMBDA issue : issue.target = pay_date /\ issue.subject \in DecreaseSubjects(field))

\* the pair of the field in the snapshot
CanonPair(snap, field) ==
    IF field \in DOMAIN snap.state_income_tax THEN snap.state_income_tax[field] ELSE snap[field]

\* the YTD of the field in canonical snapshot i is below that of snapshot i - 1
\* by more than the tolerance
YtdDecreases(canon, i, field) ==
    /\ CanonPair(canon[i - 1], field).ytd # None
    /\ CanonPair(canon[i], field).ytd # None
    /\ CanonPair(canon[i], field).ytd + tolerance < CanonPair(canon[i - 1], field).ytd

\* the errors of the gate that come from the report of a decrease
GateDecreaseErrors ==
    SelectSeq(FilerMeta.filing_safety.errors,
              LAMBDA e : e.kind = "critical_issue" /\ e.field \in DecreaseCodes)

\* C23: a YTD that decreases by more than the tolerance between canonical
\* snapshots is reported as critical only for gross pay and as a warning for
\* federal, social security, medicare and state tax; of all decreases only
\* one of gross pay makes the filing safety gate fail.
C23_DecreaseSeverity ==
    (Returned /\ Len(snapshot_loader(household_config.filers[1].sources)) > 0) =>
        LET canon == FilerCanonical
            taxes == {"federal_income_tax", "social_security_tax", "medicare_tax"}
            gross_decreases == \E i \in 2..Len(canon) : YtdDecreases(canon, i, "gross_pay")
        IN  /\ \A k \in 1..Len(IssuesCoded(DecreaseCodes)) :
                    IssuesCoded(DecreaseCodes)[k].severity = "critical"
                        => IssuesCoded(DecreaseCodes)[k].subject = "Gross pay"
            /\ \A i \in 2..Len(canon) :
                    /\ YtdDecreases(canon, i, "gross_pay") =>
                            \E k \in 1..Len(DecreaseIssues("gross_pay", canon[i].pay_date)) :
                                DecreaseIssues("gross_pay", canon[i].pay_date)[k].severity = "critical"
                    /\ \A field \in taxes \cup (DOMAIN canon[i].state_income_tax
                                                    \cap DOMAIN canon[i - 1].state_income_tax) :
                            YtdDecreases(canon, i, field) =>
                                /\ Len(DecreaseIssues(field, canon[i].pay_date)) > 0
                                /\ \A k \in 1..Len(DecreaseIssues(field, canon[i].pay_date)) :
                                        DecreaseIssues(field, canon[i].pay_date)[k].severity = "warning"
            /\ Len(GateDecreaseErrors) > 0 <=> gross_decreases
            /\ gross_decreases => ~FilerMeta.filing_safety.passed

\* the taxes decrease, gross pay does not, and the gate passes
C23_Witness ==
    /\ Returned
    /\ household_config.filers[1].sources = "docs_dip"
    /\ \A field \in {"federal_income_tax", "social_security_tax", "medicare_tax", "VA"} :
            /\ YtdDecreases(FilerCanonical, 2, field)
            /\ Len(DecreaseIssues(field, 2)) > 0
    /\ ~YtdDecreases(FilerCanonical, 2, "gross_pay")
    /\ FilerMeta.filing_safety.passed

\* gross pay decreases and the gate fails on it
C23_GrossWitness ==
    /\ Returned
    /\ \E i \in 2..Len(FilerCanonical) : YtdDecreases(FilerCanonical, i, "gross_pay")
    /\ Len(GateDecreaseErrors) > 0
----------------------------------------------------------------------------
(* Inputs of the repair rules *)

\* 0.00, 0.50 and 300.00
RuleTolerances == {0, 50, 30000}

\* a YTD that the extraction confirmed: a single amount promoted to YTD
ConfirmedPair(ytd) == [AmountPair(None, ytd, "evidence") EXCEPT !.is_ytd_confirmed = TRUE]

\* the AZ entry of a snapshot
RulePairs ==
    {AmountPair(8461, 422442, "evidence"),
     AmountPair(16927, 422442, "evidence"),
     AmountPair(8436, 16897, "evidence"),
     AmountPair(30000, 30000, "evidence"),
     AmountPair(None, 8461, "evidence"),
     AmountPair(None, 8462, "evidence"),
     AmountPair(None, 100, "evidence"),
     ConfirmedPair(49826)}

\* snapshot i: the AZ entry and a regular VA entry; the snapshot of a
\* promoted amount carries the anomaly of the promotion
RuleSnapshot(i, pay_date, az) ==
    [RepairSnapshot(i, pay_date, RepairStateMap(az, TRUE, i)) EXCEPT
        !.parse_anomalies = IF az.is_ytd_confirmed THEN <<"zero_period_ui_inferred_ytd">> ELSE <<>>]

RuleInit ==
    /\ GateIdle
    /\ W2Idle
    /\ CorrIdle
    /\ HouseIdle
    /\ HeapIdle
    /\ LineIdle
    /\ pc = "repair_call"
    /\ tolerance \in RuleTolerances
    /\ \E n \in 0..MaxSnapshots :
          \E az \in [1..n -> RulePairs \cup {NoEntry}],
             same_day \in {f \in [1..n -> BOOLEAN] : n = 0 \/ ~f[1]} :
             snapshots = [i \in 1..n |-> RuleSnapshot(i, DateOf(same_day, i), az[i])]
    /\ verified = NoRun
    /\ reverified = NoRun
    /\ promoted = NoPromotion
    /\ canonical = NoDedup
    /\ pay_date_overrides = NoOverrides

RuleNext == Repair

RuleSpec == RuleInit /\ [][RuleNext]_vars

\* the sequence as the walk over the occurrences of a state finds it at
\* snapshot idx: the earlier snapshots as corrected, the others as given
AsVisited(idx) ==
    [k \in 1..Len(snapshots) |-> IF k < idx THEN verified.snapshots[k] ELSE snapshots[k]]

\* the notes of the file about the state
EntryNotes(file, state) ==
    IF file \in DOMAIN verified.notes
    THEN SelectSeq(verified.notes[file], LAMBDA note : note[1] = state)
    ELSE <<>>

\* the issues about the state on the target with the given code and values
EntryIssues(state, snap, code, old, corrected) ==
    SelectSeq(verified.issues,
              LAMBDA issue :
                /\ issue.code = code
                /\ issue.subject = state
                /\ issue.target = (IF snap.pay_date # None THEN snap.pay_date ELSE snap.file)
                /\ issue.detail[1] = old
                /\ issue.detail[2] = corrected)

----------------------------------------------------------------------------
(* C24 *)

\* the neighbour rule with this_period dropped when it is within slack of the
\* midpoint: prev and next are the YTDs of the nearest occurrences on other
\* pay dates as the walk finds them
NeighborRepairs(slack) ==
    \A state \in {"AZ", "VA"} :
        LET indices == StateIndices(snapshots, state)
        IN  \A p \in 1..Len(indices) :
                LET idx == indices[p]
                    pair == snapshots[idx].state_income_tax[state]
                    out == verified.snapshots[idx].state_income_tax[state]
                    prev == PrevYtd(AsVisited(idx), state, indices, p)
                    next == NextYtd(AsVisited(idx), state, indices, p)
                    mid == HalfEven(prev + next)
                IN  (/\ prev # None
                     /\ next # None
                     /\ Abs(prev - next) <= 100
                     /\ pair.ytd > mid + 25000
                     /\ pair.ytd > 4 * mid) =>
                        /\ out.ytd = mid
                        /\ out.this_period =
                                IF /\ pair.this_period # None
                                   /\ Abs(pair.this_period - mid) <= slack
                                   /\ ~HasMinus(pair.source_line)
                                THEN None ELSE pair.this_period
                        /\ Len(EntryNotes(snapshots[idx].file, state)) = 1
                        /\ Len(EntryIssues(state, snapshots[idx], "state_ytd_outlier_corrected",
                                           pair.ytd, mid)) >= 1

----------------------------------------------------------------------------
(* C25 *)

\* the opening rule with a this_period of at most next + slack: an occurrence
\* with no earlier pay date, a later one and a this_period is repaired when
\* the three conditions hold and left alone otherwise
OpeningRepairs(slack) ==
    \A state \in {"AZ", "VA"} :
        LET indices == StateIndices(snapshots, state)
        IN  \A p \in 1..Len(indices) :
                LET idx == indices[p]
                    pair == snapshots[idx].state_income_tax[state]
                    out == verified.snapshots[idx].state_income_tax[state]
                    prev == PrevYtd(AsVisited(idx), state, indices, p)
                    next == NextYtd(AsVisited(idx), state, indices, p)
                IN  (prev = None /\ next # None /\ pair.this_period # None) =>
                        IF /\ pair.ytd > next + 25000
                           /\ pair.ytd > 4 * next
                           /\ pair.this_period <= next + slack
                        THEN /\ out.ytd = pair.this_period
                             /\ out.this_period = pair.this_period
                             /\ Len(EntryIssues(state, snapshots[idx], "state_ytd_outlier_corrected",
                                                pair.ytd, pair.this_period)) >= 1
                        ELSE /\ out.ytd = pair.ytd
                             /\ out.this_period = pair.this_period
                             /\ Len(EntryNotes(snapshots[idx].file, state)) = 0

\* C25: a state occurrence with no earlier distinct pay date, a later one
\* (next) and a this_period gets ytd := this_period, keeps this_period and
\* gets a state_ytd_outlier_corrected issue if ytd > next + 250.00,
\* ytd > 4 x next and this_period <= next + 0.05; otherwise it is not repaired.
C25_OpeningRepair == pc = "repaired" => OpeningRepairs(5)

\* C25 as amended: the third condition is
\* this_period <= next + max(tolerance, 0.05).
C25_OpeningRepairFloor == pc = "repaired" => OpeningRepairs(Max2(tolerance, 5))

\* an opening spike was replaced by its this_period, which is 0.30 above next,
\* under a tolerance of 0.50
C25_Witness ==
    /\ pc = "repaired"
    /\ tolerance = 50
    /\ Len(snapshots) = 2
    /\ \A i \in 1..2 : "AZ" \in DOMAIN snapshots[i].state_income_tax
    /\ snapshots[1].state_income_tax["AZ"] = AmountPair(16927, 422442, "evidence")
    /\ snapshots[2].state_income_tax["AZ"].ytd = 16897
    /\ verified.snapshots[1].state_income_tax["AZ"].ytd = 16927
    /\ verified.snapshots[1].state_income_tax["AZ"].this_period = 16927
    /\ Len(verified.issues) = 1
----------------------------------------------------------------------------
(* C26 *)

\* the neighbour, opening or closing rule repairs the occurrence
EarlierRuleRepairs(pair, prev, next) ==
    \/ /\ prev # None
       /\ next # None
       /\ Abs(prev - next) <= 100
       /\ pair.ytd > HalfEven(prev + next) + 25000
       /\ pair.ytd > 4 * HalfEven(prev + next)
    \/ /\ prev = None
       /\ next # None
       /\ pair.this_period # None
       /\ pair.ytd > next + 25000
       /\ pair.ytd > 4 * next
       /\ pair.this_period <= next + Max2(tolerance, 5)
    \/ /\ prev # None
       /\ next = None
       /\ pair.this_period # None
       /\ pair.ytd > prev + 25000
       /\ pair.ytd > 4 * prev
       /\ Abs(pair.this_period - prev) <= 50
       /\ ~HasMinus(pair.source_line)

\* C26: underflow repair is the fallback of the rule chain: on every state
\* occurrence that none of the neighbour, opening and closing rules repairs,
\* with baseline the maximum YTD of its same-pay-date peers if any, else prev,
\* a null this_period and ytd < baseline - 250.00, the repair sets
\* ytd := baseline + ytd and this_period := ytd and emits
\* state_ytd_underflow_corrected exactly when next is absent or
\* next >= baseline + ytd - 1.00.
C26_UnderflowFallback ==
    pc = "repaired" =>
        \A state \in {"AZ", "VA"} :
            LET indices == StateIndices(snapshots, state)
            IN  \A p \in 1..Len(indices) :
                    LET idx == indices[p]
                        pair == snapshots[idx].state_income_tax[state]
                        out == verified.snapshots[idx].state_income_tax[state]
                        prev == PrevYtd(AsVisited(idx), state, indices, p)
                        next == NextYtd(AsVisited(idx), state, indices, p)
                        peers == SameCyclePeerYtds(AsVisited(idx), state, indices, p)
                        baseline == IF peers # {} THEN SetMax(peers) ELSE prev
                        projection == baseline + pair.ytd
                    IN  (/\ ~EarlierRuleRepairs(pair, prev, next)
                         /\ baseline # None
                         /\ pair.this_period = None
                         /\ pair.ytd < baseline - 25000) =>
                            IF next = None \/ next >= projection - 100
                            THEN /\ out.ytd = projection
                                 /\ out.this_period = pair.ytd
                                 /\ Len(EntryIssues(state, snapshots[idx],
                                                    "state_ytd_underflow_corrected",
                                                    pair.ytd, projection)) >= 1
                            ELSE /\ out.ytd = pair.ytd
                                 /\ out.this_period = pair.this_period
                                 /\ Len(EntryNotes(snapshots[idx].file, state)) = 0
----------------------------------------------------------------------------
(* C27 *)

\* the (snapshot, state) entries whose ytd the repair changed
ChangedEntries ==
    {e \in (1..Len(snapshots)) \X {"AZ", "VA"} :
        /\ e[2] \in DOMAIN snapshots[e[1]].state_income_tax
        /\ verified.snapshots[e[1]].state_income_tax[e[2]].ytd
                # snapshots[e[1]].state_income_tax[e[2]].ytd}

RECURSIVE NoteCount(_)
NoteCount(files) ==
    IF files = {} THEN 0
    ELSE LET f == CHOOSE x \in files : TRUE
         IN  Len(verified.notes[f]) + NoteCount(files \ {f})

\* C27: each accepted repair emits exactly one issue and one per-file note:
\* the number of issues and the number of notes returned by the repair both
\* equal the number of (snapshot, state) entries whose ytd differs between
\* input and output, and every issue has severity warning.
C27_OneIssuePerRepair ==
    pc = "repaired" =>
        /\ Len(verified.issues) = Cardinality(ChangedEntries)
        /\ NoteCount(DOMAIN verified.notes) = Cardinality(ChangedEntries)
        /\ \A i \in 1..Len(verified.issues) : verified.issues[i].severity = "warning"
----------------------------------------------------------------------------
(* C28 *)

\* C28: the corrected sequence is a copy of the input that differs from it
\* only in the this_period and ytd of repaired state entries: same length and
\* order, and per snapshot the same file, pay date, gross-pay, federal, SS,
\* medicare and retirement pairs, state codes, source lines, ytd_confirmed
\* flags and ParseAnomaly list.
C28_CopyOfInput ==
    pc = "repaired" =>
        /\ Len(verified.snapshots) = Len(snapshots)
        /\ \A i \in 1..Len(snapshots) :
              LET given == snapshots[i]
                  out == verified.snapshots[i]
              IN  /\ out.file = given.file
                  /\ out.pay_date = given.pay_date
                  /\ out.gross_pay = given.gross_pay
                  /\ out.federal_income_tax = given.federal_income_tax
                  /\ out.social_security_tax = given.social_security_tax
                  /\ out.medicare_tax = given.medicare_tax
                  /\ out.k401_contrib = given.k401_contrib
                  /\ DOMAIN out.state_income_tax = DOMAIN given.state_income_tax
                  /\ \A st \in DOMAIN given.state_income_tax :
                        /\ out.state_income_tax[st].source_line
                                = given.state_income_tax[st].source_line
                        /\ out.state_income_tax[st].is_ytd_confirmed
                                = given.state_income_tax[st].is_ytd_confirmed
                        /\ Len(EntryNotes(given.file, st)) = 0 =>
                                /\ out.state_income_tax[st].this_period
                                        = given.state_income_tax[st].this_period
                                /\ out.state_income_tax[st].ytd = given.state_income_tax[st].ytd
                  /\ out.parse_anomalies = given.parse_anomalies
----------------------------------------------------------------------------
(* A filer whose loader returns the snapshots in any order *)

\* docs_swapped and docs_shuffled are docs_delta and docs_cycle out of order
OrderSources == {"docs_delta", "docs_swapped", "docs_cycle", "docs_shuffled"}

OrderInit ==
    /\ HeapIdle
    /\ LineIdle
    /\ GateIdle
    /\ W2Idle
    /\ CorrIdle
    /\ SeqIdle
    /\ pc = "household_call"
    /\ tolerance \in {1, 50}
    /\ \E sources \in OrderSources :
          household_config = [filers |-> <<[id |-> "f1", role |-> "PRIMARY", sources |-> sources]>>]
    /\ \E adjustment \in FilerAdjustments :
          /\ household_corrections = adjustment.corrections
          /\ household_overrides = adjustment.overrides
    /\ filer_index = 0
    /\ seen_paths = << >>
    /\ loaded = NoLoad
    /\ results = <<>>
    /\ total_gross = 0
    /\ total_fed = 0
    /\ all_ready = TRUE
    /\ outcome = Pending

OrderSpec == OrderInit /\ [][Next]_vars

----------------------------------------------------------------------------
(* C29 *)

\* the pay date overrides analyze_filer is called with
GivenOverrides ==
    IF "f1" \in DOMAIN household_overrides THEN household_overrides["f1"] ELSE NoOverrides

\* the sequence that enters state YTD repair in analyze_filer
EnteringRepair == apply_manual_pay_date_overrides(loaded.snapshots, GivenOverrides).snapshots

\* ascending by (pay date, filename)
InPayDateOrder(seq) ==
    \A i \in 1..(Len(seq) - 1) :
        \/ seq[i].pay_date < seq[i + 1].pay_date
        \/ seq[i].pay_date = seq[i + 1].pay_date /\ seq[i].file <= seq[i + 1].file

AnalyzeCalled == pc = "analyze" /\ Len(loaded.snapshots) > 0

\* C29 as stated: the sequence that enters state YTD repair is ordered by
\* (pay date, filename) whatever order the snapshots were supplied in and
\* whether or not overrides were given.
C29_RepairInputOrdered == AnalyzeCalled => InPayDateOrder(EnteringRepair)

\* C29: the sequence that enters state YTD repair in analyze_filer is ordered
\* by (pay date, filename) whenever pay-date overrides were given, whatever
\* order the snapshots were supplied in; without overrides it enters repair
\* in the order supplied.
C29_OrderedWhenOverridden ==
    AnalyzeCalled =>
        /\ DOMAIN GivenOverrides # {} => InPayDateOrder(EnteringRepair)
        /\ DOMAIN GivenOverrides = {} => EnteringRepair = loaded.snapshots

C29_Witness ==
    /\ AnalyzeCalled
    /\ household_config.filers[1].sources = "docs_shuffled"
    /\ ~InPayDateOrder(loaded.snapshots)
    /\ DOMAIN GivenOverrides = {1}
    /\ [i \in 1..3 |-> EnteringRepair[i].file] = <<1, 2, 3>>
    /\ EnteringRepair[1].pay_date = 2
----------------------------------------------------------------------------
(* C30 *)

\* the closed grammar of correction keys: the boxes, a state key, the bare key
GrammarKeys ==
    {"box1", "box2", "box3", "box4", "box5", "box6", "state_income_tax",
     "state_income_tax_VA", "state_income_tax_AZ"}

\* the field a trace entry names for a correction key
TracedField(key) ==
    CASE key = "box1" -> "gross_pay"
      [] key = "box2" -> "federal_income_tax"
      [] key = "box3" -> "social_security_wages"
      [] key = "box4" -> "social_security_tax"
      [] key = "box5" -> "medicare_wages"
      [] key = "box6" -> "medicare_tax"
      [] OTHER -> key

\* the corrections that are to be traced: those of the grammar that pass
\* the test, and the other ones that overwrite a field of the tree
TracedCorrections(GrammarTest(_)) ==
    SelectSeq(corrections,
              LAMBDA c : IF c.key \in GrammarKeys THEN GrammarTest(c)
                         ELSE c.is_dict /\ c.key \in DOMAIN extracted_data)

\* the trace names the corrections to be traced, one entry each, in the order
\* of the corrections, with the corrected value (none for the bare key)
TraceFollows(traced) ==
    /\ Len(correction_trace) = Len(traced)
    /\ \A i \in 1..Len(traced) :
          /\ correction_trace[i].corrected_field = TracedField(traced[i].key)
          /\ correction_trace[i].corrected_value
                = (IF traced[i].key = "state_income_tax" THEN None ELSE traced[i].value)

============================================================================
